---- MODULE Spec2Model ----
(***************************************************************************)
(* A model of tslog: the Options builder and NewLogger, the Zap-backed     *)
(* driver (zapLogger with its RWMutex, z() and Close), the no-op driver    *)
(* (NoneLogger), and the process-wide default logger slot with its         *)
(* RWMutex and the package-level forwarding functions.                     *)
(*                                                                         *)
(* Goroutines are modelled by gs; a call is a sequence of steps, one per   *)
(* synchronisation point of the code.  Spec runs one goroutine over a wide *)
(* range of configurations; SpecConc interleaves several goroutines over   *)
(* a narrow range.                                                         *)
(***************************************************************************)
EXTENDS Integers, Sequences, FiniteSets, TLC

VARIABLES
    heap,               \* the Logger objects allocated so far; heap[1] is the init-time default logger
    defaultLogger,      \* var defaultLogger Logger: an index into heap
    defaultLoggerMutex, \* var defaultLoggerMutex sync.RWMutex
    out,                \* what each destination has received, in order
    gs,                 \* per goroutine: position in the current call, its locals and its last result
    ncalls,             \* number of calls begun so far; a call's number tags the record it emits
    hist,               \* history: how each logger was made, which updates, closes and syncs happened
    arrays,             \* the backing arrays of the []io.Writer slices (SpecOpts)
    optTest,            \* an Options value, the caller's slice and option, and the calls made on them (SpecOpts)
    ljTest,             \* a LumberJackConfig of a caller and the constructor call made with it (SpecLumber)
    parseTest,          \* a text, the ParseLevel call made on it and the Level.Enabled calls (SpecParse)
    buildTest           \* the option loop of one NewLogger call, iteration by iteration (SpecBuild)

logVars == <<heap, defaultLogger, defaultLoggerMutex, out, gs, ncalls, hist>>
auxVars == <<arrays, optTest, ljTest, parseTest, buildTest>>
vars == <<heap, defaultLogger, defaultLoggerMutex, out, gs, ncalls, hist, arrays, optTest, ljTest,
          parseTest, buildTest>>

(***************************************************************************)
(* Bounds of the model.                                                    *)
(***************************************************************************)
MaxOpts == 2        \* options passed to one NewLogger call
MaxLoggers == 1     \* loggers constructed besides the init-time one (Spec)
MaxCalls == 1       \* calls made after construction (Spec)
MaxConcLoggers == 1 \* loggers constructed besides the init-time one (SpecConc)
MaxConcCalls == 3   \* calls begun by all goroutines together (SpecConc)
NumGoroutines == 2  \* goroutines of SpecConc
MaxSliceLen == 2    \* length of the caller's writer slice (SpecOpts)
MaxSetDefaults == 2 \* setDefaults calls on one config (SpecLumber)
MaxRaceCalls == 3   \* Infof calls begun by all goroutines together (SpecRace)
MaxBuildOpts == 3   \* options passed to the NewLogger call of SpecBuild
MaxCallerCalls == 3 \* calls made after construction (SpecCaller)

(***************************************************************************)
(* Levels and encoders.                                                    *)
(***************************************************************************)
NoneLevel == 0
DebugLevel == 1
InfoLevel == 2
WarnLevel == 3
ErrorLevel == 4

EncoderJSON == "json"
EncoderConsole == "console"

\* zapcore.Level values the driver refers to
ZapDebugLevel == -1
ZapInfoLevel == 0
ZapWarnLevel == 1
ZapErrorLevel == 2
ZapFatalLevel == 5

\* nil for writers, drivers and option functions; NilPtr for nil pointers and maps;
\* heap index 0 is the nil Logger
Nil == "nil"
NilPtr == <<>>

\* The destinations (io.Writer values); Nil is a nil io.Writer.
Stdout == "stdout"
Stderr == "stderr"
Buf1 == "buf1"
Buf2 == "buf2"
Dests == {Stdout, Stderr, Buf1, Buf2}

Range(s) == {s[i] : i \in DOMAIN s}

RECURSIVE SeqsUpTo(_, _)
\* all sequences over S of length at most n
SeqsUpTo(S, n) ==
    IF n = 0 THEN {<<>>}
    ELSE LET shorter == SeqsUpTo(S, n - 1)
         IN  shorter \cup {Append(s, x) : s \in {t \in shorter : Len(t) = n - 1}, x \in S}

(***************************************************************************)
(* Options and the option functions.                                       *)
(***************************************************************************)
NewZapDriverName == "NewZapDriver"
NewNoneDriverName == "NewNoneDriver"

\* func defaultOptions() *Options: the writer list is left nil
defaultOptions ==
    [lvl |-> DebugLevel, w |-> <<>>, encoder |-> EncoderJSON, caller |-> FALSE,
     driver |-> NewZapDriverName]

\* the zero value Options{}
ZeroOptions ==
    [lvl |-> NoneLevel, w |-> <<>>, encoder |-> "", caller |-> FALSE, driver |-> Nil]

\* a bug: the rules are tested in the order writers, encoder, driver
ValidateWritersFirst(o) ==
    IF Len(o.w) = 0 THEN "at least one writer must be specified"
    ELSE IF o.encoder # EncoderJSON /\ o.encoder # EncoderConsole
         THEN "encoder must be either \"json\" or \"console\""
    ELSE IF o.driver = Nil THEN "driver cannot be nil"
    ELSE ""

\* func (o *Options) Validate() error: "" stands for a nil error
Validate(o) ==
    IF o.driver = Nil THEN "driver cannot be nil"
    ELSE IF o.encoder # EncoderJSON /\ o.encoder # EncoderConsole
         THEN "encoder must be either \"json\" or \"console\""
    ELSE IF Len(o.w) = 0 THEN "at least one writer must be specified"
    ELSE ""

WithLevel(lvl) == [kind |-> "WithLevel", v |-> lvl]
WithWriter(w) == [kind |-> "WithWriter", v |-> w]
WithCaller(caller) == [kind |-> "WithCaller", v |-> caller]
WithEncoder(encoder) == [kind |-> "WithEncoder", v |-> encoder]
WithDriver(d) == [kind |-> "WithDriver", v |-> d]
NilOption == [kind |-> Nil, v |-> Nil]

\* a bug: an option builds on the defaults, discarding what earlier options set
ApplyOptionOnDefaults(o, f) ==
    CASE f.kind = "WithLevel" -> [defaultOptions EXCEPT !.lvl = f.v]
      [] f.kind = "WithWriter" -> [defaultOptions EXCEPT !.w = f.v]
      [] f.kind = "WithCaller" -> [defaultOptions EXCEPT !.caller = f.v]
      [] f.kind = "WithEncoder" -> [defaultOptions EXCEPT !.encoder = f.v]
      [] f.kind = "WithDriver" -> [defaultOptions EXCEPT !.driver = f.v]

\* f(opts) for a non-nil FuncOption f
ApplyOption(o, f) ==
    CASE f.kind = "WithLevel" -> [o EXCEPT !.lvl = f.v]
      [] f.kind = "WithWriter" -> [o EXCEPT !.w = f.v]
      [] f.kind = "WithCaller" -> [o EXCEPT !.caller = f.v]
      [] f.kind = "WithEncoder" -> [o EXCEPT !.encoder = f.v]
      [] f.kind = "WithDriver" -> [o EXCEPT !.driver = f.v]

\* a bug: the nil check is missing, so a nil option is called
ApplyNoSkip(st, f) ==
    IF f.kind = Nil THEN [st EXCEPT !.panic = TRUE]
    ELSE [st EXCEPT !.opts = ApplyOption(st.opts, f)]

\* if f != nil { f(opts) }; calling a nil FuncOption would panic
ApplyOrSkip(st, f) ==
    IF f.kind = Nil THEN st
    ELSE [st EXCEPT !.opts = ApplyOption(st.opts, f)]

RECURSIVE ApplyAll(_, _)
\* for _, f := range funcOpts { ... }
ApplyAll(st, funcOpts) ==
    IF funcOpts = <<>> \/ st.panic THEN st
    ELSE ApplyAll(ApplyOrSkip(st, Head(funcOpts)), Tail(funcOpts))

(***************************************************************************)
(* The drivers.                                                            *)
(***************************************************************************)
\* a bug: the map has no entry for NoneLevel
zapLevelWithoutNone ==
    (DebugLevel :> ZapDebugLevel) @@ (InfoLevel :> ZapInfoLevel) @@
    (WarnLevel :> ZapWarnLevel) @@ (ErrorLevel :> ZapErrorLevel)

\* var zapLevel = map[Level]zapcore.Level{...}
zapLevel ==
    (NoneLevel :> ZapFatalLevel + 1) @@ (DebugLevel :> ZapDebugLevel) @@
    (InfoLevel :> ZapInfoLevel) @@ (WarnLevel :> ZapWarnLevel) @@
    (ErrorLevel :> ZapErrorLevel)

\* a bug: the looked-up level is not assigned, so the level stays Info
ToZapLevelIgnored(lvl) == ZapInfoLevel

\* lvl := zapcore.InfoLevel; if l, ok := zapLevel[opts.lvl]; ok { lvl = l }
ToZapLevel(lvl) == IF lvl \in DOMAIN zapLevel THEN zapLevel[lvl] ELSE ZapInfoLevel

\* the encoder switch: console, else JSON
ChooseEncoder(encoder) == IF encoder = EncoderConsole THEN EncoderConsole ELSE EncoderJSON

\* a bug: only the first writer becomes a syncer
SyncersFirstOnly(w) ==
    IF Len(w) = 0 THEN <<Stdout>> ELSE SelectSeq(<<Head(w)>>, LAMBDA x : x # Nil)

\* the write syncers: stdout when no writer is given, else every non-nil writer in order
Syncers(w) == IF Len(w) = 0 THEN <<Stdout>> ELSE SelectSeq(w, LAMBDA x : x # Nil)

\* the options NewZapDriver builds from: a nil or invalid opts is replaced by the defaults
EffectiveOptions(opts) ==
    IF opts = NilPtr THEN defaultOptions
    ELSE IF Validate(opts) # "" THEN defaultOptions
    ELSE opts

\* the line NewZapDriver prints to standard error for invalid options
Diagnostic(opts) ==
    IF opts # NilPtr /\ Validate(opts) # ""
    THEN <<[kind |-> "diag", text |-> Validate(opts)]>>
    ELSE <<>>

RWMutexZero == [readers |-> 0, writer |-> FALSE]

\* func NewZapDriver(opts *Options) Logger: the logger and what was printed to stderr
NewZapDriver(opts) ==
    LET o == EffectiveOptions(opts)
    IN  [panic |-> FALSE,
         stderr |-> Diagnostic(opts),
         logger |-> [type |-> "zapLogger",
                     zap |-> [lvl |-> ToZapLevel(o.lvl),
                              encoder |-> ChooseEncoder(o.encoder),
                              syncers |-> Syncers(o.w),
                              caller |-> o.caller],
                     mutex |-> RWMutexZero,
                     closed |-> FALSE]]

\* a bug: the no-op driver hands the options to the backend driver
NewNoneDriverAsZap(opts) == NewZapDriver(opts)

\* func NewNoneDriver(opts *Options) Logger
NewNoneDriver(opts) ==
    [panic |-> FALSE, stderr |-> <<>>, logger |-> [type |-> "NoneLogger"]]

\* opts.driver(opts): calling a nil func panics
CallDriver(d, opts) ==
    CASE d = NewZapDriverName -> NewZapDriver(opts)
      [] d = NewNoneDriverName -> NewNoneDriver(opts)
      [] OTHER -> [panic |-> TRUE, stderr |-> <<>>, logger |-> NilPtr]

\* a bug: the options are used whether or not they are valid
ValidateIgnored(opts) == opts

\* the validation step of NewLogger: fall back to the defaults when Validate fails
ValidateOrDefault(opts) == IF Validate(opts) # "" THEN defaultOptions ELSE opts

\* func NewLogger(funcOpts ...FuncOption) Logger
NewLogger(funcOpts) ==
    LET st == ApplyAll([panic |-> FALSE, opts |-> defaultOptions], funcOpts)
        opts == ValidateOrDefault(st.opts)
    IN  IF st.panic THEN [panic |-> TRUE, stderr |-> <<>>, logger |-> NilPtr]
        ELSE CallDriver(opts.driver, opts)

\* the logger init() builds: the options are applied without validation
InitLogger ==
    LET funcOpts == <<WithLevel(DebugLevel), WithWriter(<<Stdout>>),
                      WithEncoder(EncoderConsole), WithCaller(FALSE)>>
        st == ApplyAll([panic |-> FALSE, opts |-> defaultOptions], funcOpts)
    IN  CallDriver(st.opts.driver, st.opts)

\* &zapLogger{}: a zapLogger whose backend handle was never assigned
ZapLoggerZero == [type |-> "zapLogger", zap |-> NilPtr, mutex |-> RWMutexZero, closed |-> FALSE]

(***************************************************************************)
(* The backend: zap's SugaredLogger as the driver uses it.                 *)
(***************************************************************************)
\* a method of the Logger interface with its arguments: sev is the severity,
\* style is "print", "printf" or "t"; text is the format or the message
Method(sev, style, text, args, fields) ==
    [sev |-> sev, style |-> style, text |-> text, args |-> args, fields |-> fields]

NoMethod == Method(NoneLevel, "", <<>>, <<>>, NilPtr)

\* values of type T: a nil map or a map from keys to values
NilMap == [nil |-> TRUE, kv |-> <<>>]
MapOf(kv) == [nil |-> FALSE, kv |-> kv]
MapLen(t) == Cardinality(DOMAIN t.kv)

RECURSIVE Concat(_)
Concat(ss) == IF ss = <<>> THEN "" ELSE Head(ss) \o Concat(Tail(ss))

RECURSIVE Extra(_)
Extra(args) ==
    IF Len(args) = 1 THEN "string=" \o Head(args)
    ELSE "string=" \o Head(args) \o ", " \o Extra(Tail(args))

RECURSIVE Sprintf(_, _)
\* fmt.Sprintf over a format given as its pieces, "%s" being the verb
Sprintf(format, args) ==
    IF format = <<>>
    THEN IF args = <<>> THEN "" ELSE "%!(EXTRA " \o Extra(args) \o ")"
    ELSE IF Head(format) = "%s"
         THEN IF args = <<>>
              THEN "%!s(MISSING)" \o Sprintf(Tail(format), args)
              ELSE Head(args) \o Sprintf(Tail(format), Tail(args))
         ELSE Head(format) \o Sprintf(Tail(format), args)

\* zap's getMessage(template, fmtArgs)
getMessage(template, fmtArgs) ==
    IF Len(fmtArgs) = 0 THEN Concat(template)
    ELSE IF template # <<>> THEN Sprintf(template, fmtArgs)
    ELSE Concat(fmtArgs)

\* all orders in which the keys of a map may be visited
Orders(keys) ==
    {s \in [1..Cardinality(keys) -> keys] : \A i, j \in DOMAIN s : i # j => s[i] # s[j]}

\* a bug: the values are not appended
keysAndValuesKeysOnly(args) ==
    IF MapLen(args) = 0 THEN {<<>>} ELSE Orders(DOMAIN args.kv)

\* func (l *zapLogger) keysAndValues(args T) []any: the possible results, one per
\* iteration order of the map; each is k1, v1, k2, v2, ... (nil for an empty map)
keysAndValues(args) ==
    IF MapLen(args) = 0 THEN {<<>>}
    ELSE {[i \in 1..(2 * MapLen(args)) |->
              IF i % 2 = 1 THEN s[(i + 1) \div 2] ELSE args.kv[s[i \div 2]]]
          : s \in Orders(DOMAIN args.kv)}

\* the level gate of the core: zapcore's LevelEnabler
Enabled(h, lvl) == lvl >= h.lvl

\* The frames of a goroutine inside a SugaredLogger method, outermost first: the
\* application function that logs and its own caller, then the facade.  A method
\* called on a Logger adds the zapLogger method; a package-level function adds
\* itself and the zapLogger method it forwards to (DefaultLogger() and z() have
\* returned by then).
AppCallerFrame == "caller of the application function"
AppFrame == "application function"
PackageFrame == "tslog package-level function"
MethodFrame == "zapLogger method"

CallStack(op) ==
    IF op = "Package" THEN <<AppCallerFrame, AppFrame, PackageFrame, MethodFrame>>
    ELSE <<AppCallerFrame, AppFrame, MethodFrame>>

\* zap.AddCallerSkip(2)
CallerSkip == 2

\* the frame the backend reports: without a skip, the caller of the SugaredLogger
\* method; each unit of skip moves one frame outwards
CallerFrame(stack, skip) == stack[Len(stack) - skip]

\* the caller field of an entry: set when zap.AddCaller() was given
EntryCaller(h, stack) == IF h.caller THEN CallerFrame(stack, CallerSkip) ELSE ""

\* what one SugaredLogger call at a level below DPanic writes: the records, none
\* when the gate drops it
ZapLog(h, id, lvl, template, fmtArgs, context, stack) ==
    IF ~Enabled(h, lvl) THEN <<>>
    ELSE <<[kind |-> "record", call |-> id, lvl |-> lvl, msg |-> getMessage(template, fmtArgs),
            fields |-> context, encoder |-> h.encoder, caller |-> EntryCaller(h, stack)]>>

\* the zapcore level of the SugaredLogger method each zapLogger method calls
MethodLevel(sev) ==
    CASE sev = DebugLevel -> ZapDebugLevel
      [] sev = InfoLevel -> ZapInfoLevel
      [] sev = WarnLevel -> ZapWarnLevel
      [] sev = ErrorLevel -> ZapErrorLevel

\* the backend call each zapLogger method makes once z() has returned h
Delegate(h, id, m, stack) ==
    LET lvl == MethodLevel(m.sev)
    IN  CASE m.style = "print" -> {ZapLog(h, id, lvl, <<>>, m.args, <<>>, stack)}
          [] m.style = "printf" -> {ZapLog(h, id, lvl, m.text, m.args, <<>>, stack)}
          [] m.style = "t" ->
                IF MapLen(m.fields) = 0
                THEN {ZapLog(h, id, lvl, <<>>, <<Concat(m.text)>>, <<>>, stack)}
                ELSE {ZapLog(h, id, lvl, m.text, <<>>, kv, stack)
                      : kv \in keysAndValues(m.fields)}

\* zapcore's multiWriteSyncer: every syncer receives the record
WriteAll(o, syncers, recs) ==
    [d \in DOMAIN o |-> IF d \in Range(syncers) THEN o[d] \o recs ELSE o[d]]

\* what SugaredLogger.Sync may return: a file's Sync can fail, a buffer's cannot
SyncResults(h) ==
    IF Range(h.syncers) \cap {Stdout, Stderr} # {} THEN {"", "sync failed"} ELSE {""}

(***************************************************************************)
(* Goroutines and calls.                                                   *)
(***************************************************************************)
\* a goroutine between calls, before its first call
IdleState ==
    [pc |-> "idle", op |-> "", m |-> NoMethod, arg |-> <<>>, lg |-> 0, h |-> NilPtr,
     id |-> 0, after |-> 0, late |-> FALSE, res |-> "", ret |-> 0, err |-> "",
     recs |-> <<>>, k |-> 0, off |-> 0]

Idle(p) == gs[p].pc = "idle"

\* the call of goroutine p returns (res "ok") or panics (res "panic")
Finish(g, res) == [g EXCEPT !.pc = "idle", !.res = res]

RLock(mu) == [mu EXCEPT !.readers = @ + 1]

\* a bug: the deferred RUnlock is missing
RUnlockMissing(mu) == mu

\* defer mutex.RUnlock()
RUnlock(mu) == [mu EXCEPT !.readers = @ - 1]

Lock(mu) == [mu EXCEPT !.writer = TRUE]
Unlock(mu) == [mu EXCEPT !.writer = FALSE]
CanRLock(mu) == ~mu.writer
CanLock(mu) == ~mu.writer /\ mu.readers = 0

\* logger := NewLogger(funcOpts...)
NewLoggerCall(p, funcOpts) ==
    /\ Idle(p)
    /\ LET r == NewLogger(funcOpts)
       IN  /\ heap' = IF r.panic THEN heap ELSE Append(heap, r.logger)
           /\ out' = [out EXCEPT ![Stderr] = @ \o r.stderr]
           /\ gs' = [gs EXCEPT ![p] =
                  [IdleState EXCEPT !.op = "NewLogger", !.arg = funcOpts,
                                    !.res = IF r.panic THEN "panic" ELSE "ok",
                                    !.ret = IF r.panic THEN 0 ELSE Len(heap) + 1]]
           /\ hist' = IF r.panic THEN hist
                      ELSE [hist EXCEPT !.origin = Append(@, [by |-> "NewLogger", arg |-> funcOpts])]
    /\ UNCHANGED <<defaultLogger, defaultLoggerMutex, ncalls>>

\* logger := NewZapDriver(opts), called directly
NewZapDriverCall(p, opts) ==
    /\ Idle(p)
    /\ LET r == NewZapDriver(opts)
       IN  /\ heap' = Append(heap, r.logger)
           /\ out' = [out EXCEPT ![Stderr] = @ \o r.stderr]
           /\ gs' = [gs EXCEPT ![p] =
                  [IdleState EXCEPT !.op = "NewZapDriver", !.arg = opts, !.res = "ok",
                                    !.ret = Len(heap) + 1]]
    /\ hist' = [hist EXCEPT !.origin = Append(@, [by |-> "NewZapDriver", arg |-> opts])]
    /\ UNCHANGED <<defaultLogger, defaultLoggerMutex, ncalls>>

\* logger := &zapLogger{}
ZapLoggerLiteral(p) ==
    /\ Idle(p)
    /\ heap' = Append(heap, ZapLoggerZero)
    /\ gs' = [gs EXCEPT ![p] =
           [IdleState EXCEPT !.op = "zapLogger{}", !.res = "ok", !.ret = Len(heap) + 1]]
    /\ hist' = [hist EXCEPT !.origin = Append(@, [by |-> "literal", arg |-> <<>>])]
    /\ UNCHANGED <<defaultLogger, defaultLoggerMutex, out, ncalls>>

\* heap[l].<method>(...): the call begins
LogCall(p, l, m) ==
    /\ Idle(p)
    /\ ncalls' = ncalls + 1
    /\ gs' = [gs EXCEPT ![p] =
           [IdleState EXCEPT !.pc = "dispatch", !.op = "Log", !.m = m, !.lg = l,
                             !.id = ncalls + 1]]
    /\ UNCHANGED <<heap, defaultLogger, defaultLoggerMutex, out, hist>>

\* DefaultLogger(), or a package-level function at its DefaultLogger() call:
\* defaultLoggerMutex.RLock()
DefaultLoggerRLock(p, op, m) ==
    /\ Idle(p)
    /\ CanRLock(defaultLoggerMutex)
    /\ defaultLoggerMutex' = RLock(defaultLoggerMutex)
    /\ ncalls' = ncalls + 1
    /\ gs' = [gs EXCEPT ![p] =
           [IdleState EXCEPT !.pc = "dl_read", !.op = op, !.m = m, !.id = ncalls + 1,
                             !.after = IF hist.lastUpd.clean THEN hist.lastUpd.x ELSE 0]]
    /\ UNCHANGED <<heap, defaultLogger, out, hist>>

DefaultLoggerCall(p) == DefaultLoggerRLock(p, "DefaultLogger", NoMethod)

PackageCall(p, m) == DefaultLoggerRLock(p, "Package", m)

\* a bug: the logger installed at init time is returned, not the slot's value
DefaultLoggerValueStale == CHOOSE l \in DOMAIN heap : \A k \in DOMAIN heap : l <= k

\* the value DefaultLogger() returns
DefaultLoggerValue == defaultLogger

\* return defaultLogger, with the deferred RUnlock
DefaultLoggerReturn(p) ==
    /\ gs[p].pc = "dl_read"
    /\ defaultLoggerMutex' = RUnlock(defaultLoggerMutex)
    /\ gs' = [gs EXCEPT ![p] =
           IF gs[p].op = "DefaultLogger"
           THEN [Finish(gs[p], "ok") EXCEPT !.ret = DefaultLoggerValue]
           ELSE [gs[p] EXCEPT !.pc = "dispatch", !.lg = DefaultLoggerValue]]
    /\ UNCHANGED <<heap, defaultLogger, out, ncalls, hist>>

\* the method is entered: a NoneLogger method returns; a zapLogger method calls
\* z(), which takes l.mutex.RLock(); a method of a nil Logger panics
MethodEnter(p) ==
    /\ gs[p].pc = "dispatch"
    /\ LET l == gs[p].lg
       IN  IF l = 0
           THEN /\ gs' = [gs EXCEPT ![p] = Finish(gs[p], "panic")]
                /\ heap' = heap
           ELSE IF heap[l].type = "NoneLogger"
           THEN /\ gs' = [gs EXCEPT ![p] = Finish(gs[p], "ok")]
                /\ heap' = heap
           ELSE /\ CanRLock(heap[l].mutex)
                /\ heap' = [heap EXCEPT ![l].mutex = RLock(@)]
                /\ gs' = [gs EXCEPT ![p].pc = "z_check",
                                    ![p].late = l \in hist.closeReturned]
    /\ UNCHANGED <<defaultLogger, defaultLoggerMutex, out, ncalls, hist>>

\* a bug: z() returns the handle without its checks
zOutcomeUnchecked(lg) == [panic |-> FALSE, h |-> lg.zap]

\* the outcome of z() on logger object lg: the handle, or a panic
zOutcome(lg) ==
    IF lg.zap = NilPtr THEN [panic |-> TRUE, h |-> NilPtr]
    ELSE IF lg.closed THEN [panic |-> TRUE, h |-> NilPtr]
    ELSE [panic |-> FALSE, h |-> lg.zap]

\* the body of z() and its deferred RUnlock
ZReturn(p) ==
    /\ gs[p].pc = "z_check"
    /\ LET l == gs[p].lg
           r == zOutcome(heap[l])
       IN  /\ heap' = [heap EXCEPT ![l].mutex = RUnlock(@)]
           /\ gs' = [gs EXCEPT ![p] =
                  IF r.panic THEN Finish(gs[p], "panic")
                  ELSE [gs[p] EXCEPT !.pc = "emit", !.h = r.h]]
    /\ UNCHANGED <<defaultLogger, defaultLoggerMutex, out, ncalls, hist>>

\* the backend call on the handle z() returned, as one step: each destination's
\* Write is taken to be atomic (WriteStart, WriteLen, WriteCopy take the call step
\* by step for destinations whose Write is not)
Emit(p) ==
    /\ gs[p].pc = "emit"
    /\ \E recs \in Delegate(gs[p].h, gs[p].id, gs[p].m, CallStack(gs[p].op)) :
           out' = WriteAll(out, gs[p].h.syncers, recs)
    /\ gs' = [gs EXCEPT ![p] = Finish(gs[p], "ok")]
    /\ UNCHANGED <<heap, defaultLogger, defaultLoggerMutex, ncalls, hist>>

\* The backend call of Emit, step by step (SpecRace).  The core encodes the entry
\* and calls Write once on each syncer in turn; NewZapDriver wraps the writers
\* with zapcore.AddSync, without zapcore.Lock, and z() has released the logger's
\* mutex, so nothing serialises the Write calls of concurrent goroutines.  A
\* bytes.Buffer's Write reads the buffer's length, then reslices to that length plus
\* the record's and copies the record there; an *os.File's Write is one system call.
Unsynchronized == {Buf1, Buf2}

\* the backend call begins: the entry passes the gate and is encoded, or is dropped
WriteStart(p) ==
    /\ gs[p].pc = "emit"
    /\ \E recs \in Delegate(gs[p].h, gs[p].id, gs[p].m, CallStack(gs[p].op)) :
           gs' = [gs EXCEPT ![p] =
                  IF recs = <<>> \/ gs[p].h.syncers = <<>>
                  THEN Finish(gs[p], "ok")
                  ELSE [gs[p] EXCEPT !.pc = "write_len", !.recs = recs, !.k = 1]]
    /\ UNCHANGED <<heap, defaultLogger, defaultLoggerMutex, out, ncalls, hist>>

\* Write on syncer k begins: the length of the destination is read
WriteLen(p) ==
    /\ gs[p].pc = "write_len"
    /\ gs' = [gs EXCEPT ![p].pc = "write_copy",
                        ![p].off = Len(out[gs[p].h.syncers[gs[p].k]])]
    /\ UNCHANGED <<heap, defaultLogger, defaultLoggerMutex, out, ncalls, hist>>

\* the content of an unsynchronized destination after a record is copied to the
\* offset read before: the destination is cut or extended to that offset (bytes
\* left in the array by earlier writes fill a gap), and the record follows
StoreAt(content, off, rec) ==
    [i \in 1..(off + 1) |->
        IF i = off + 1 THEN rec
        ELSE IF i <= Len(content) THEN content[i]
        ELSE [kind |-> "stale"]]

\* what the bytes at the record's place may be after the copy: the record, or, when
\* another goroutine is copying to the same place, a mix of the two records
Copied(p, d) ==
    {gs[p].recs[1]} \cup
    {[kind |-> "torn"] : q \in {q \in DOMAIN gs : /\ q # p
                                                   /\ gs[q].pc = "write_copy"
                                                   /\ gs[q].h.syncers[gs[q].k] = d
                                                   /\ gs[q].off = gs[p].off}}

\* Write on syncer k ends: the record is in the destination; the next syncer
\* follows, or the method returns
WriteCopy(p) ==
    /\ gs[p].pc = "write_copy"
    /\ LET d == gs[p].h.syncers[gs[p].k]
       IN  IF d \in Unsynchronized
           THEN \E rec \in Copied(p, d) : out' = [out EXCEPT ![d] = StoreAt(@, gs[p].off, rec)]
           ELSE out' = [out EXCEPT ![d] = @ \o gs[p].recs]
    /\ gs' = [gs EXCEPT ![p] =
           IF gs[p].k = Len(gs[p].h.syncers) THEN Finish(gs[p], "ok")
           ELSE [gs[p] EXCEPT !.pc = "write_len", !.k = @ + 1]]
    /\ UNCHANGED <<heap, defaultLogger, defaultLoggerMutex, ncalls, hist>>

\* a bug: Close neither returns early when closed nor clears the handle
CloseBodyAgain(lg, err) ==
    [logger |-> [lg EXCEPT !.closed = TRUE], err |-> err, synced |-> lg.zap # NilPtr]

\* a bug: Close returns the error of Sync at once, before it clears the handle and
\* marks the logger closed
CloseBodyReturnsOnError(lg, err) ==
    IF lg.closed THEN [logger |-> lg, err |-> "", synced |-> FALSE]
    ELSE IF lg.zap # NilPtr
         THEN IF err # "" THEN [logger |-> lg, err |-> err, synced |-> TRUE]
              ELSE [logger |-> [lg EXCEPT !.zap = NilPtr, !.closed = TRUE], err |-> err,
                    synced |-> TRUE]
         ELSE [logger |-> [lg EXCEPT !.closed = TRUE], err |-> "", synced |-> FALSE]

\* the body of Close under the exclusive lock, Sync returning err: the logger
\* object afterwards, the value returned and whether Sync was invoked
CloseBody(lg, err) ==
    IF lg.closed THEN [logger |-> lg, err |-> "", synced |-> FALSE]
    ELSE IF lg.zap # NilPtr
         THEN [logger |-> [lg EXCEPT !.zap = NilPtr, !.closed = TRUE], err |-> err,
               synced |-> TRUE]
         ELSE [logger |-> [lg EXCEPT !.closed = TRUE], err |-> "", synced |-> FALSE]

\* the number of Sync calls made on the backend of logger l so far
SyncCount(l) == IF l \in DOMAIN hist.syncs THEN hist.syncs[l] ELSE 0

\* heap[l].Close(): l.mutex.Lock()
CloseCall(p, l) ==
    /\ Idle(p)
    /\ heap[l].type = "zapLogger"
    /\ CanLock(heap[l].mutex)
    /\ heap' = [heap EXCEPT ![l].mutex = Lock(@)]
    /\ ncalls' = ncalls + 1
    /\ gs' = [gs EXCEPT ![p] =
           [IdleState EXCEPT !.pc = "close_body", !.op = "Close", !.lg = l, !.id = ncalls + 1,
                             !.late = l \in hist.closeReturned]]
    /\ UNCHANGED <<defaultLogger, defaultLoggerMutex, out, hist>>

\* the body of Close and its deferred Unlock
CloseReturn(p) ==
    /\ gs[p].pc = "close_body"
    /\ LET l == gs[p].lg
       IN  \E err \in (IF heap[l].zap = NilPtr THEN {""} ELSE SyncResults(heap[l].zap)) :
               LET r == CloseBody(heap[l], err)
               IN  /\ heap' = [heap EXCEPT ![l] = [r.logger EXCEPT !.mutex = Unlock(@)]]
                   /\ gs' = [gs EXCEPT ![p] = [Finish(gs[p], "ok") EXCEPT !.err = r.err]]
                   /\ hist' = [hist EXCEPT
                                 !.closeReturned = @ \cup {l},
                                 !.syncs = IF r.synced THEN (l :> SyncCount(l) + 1) @@ @ ELSE @]
    /\ UNCHANGED <<defaultLogger, defaultLoggerMutex, out, ncalls>>

\* a bug: the nil check is missing
IgnoredUpdateNever(l) == FALSE

\* if l == nil { return }
IgnoredUpdate(l) == l = 0

\* UpdateDefaultLogger(heap[l]), l = 0 being nil: the nil check, then
\* defaultLoggerMutex.Lock()
UpdateDefaultLoggerCall(p, l) ==
    /\ Idle(p)
    /\ ncalls' = ncalls + 1
    /\ IF IgnoredUpdate(l)
       THEN /\ gs' = [gs EXCEPT ![p] =
                   [IdleState EXCEPT !.op = "UpdateDefaultLogger", !.lg = l, !.id = ncalls + 1,
                                     !.res = "ok"]]
            /\ UNCHANGED <<defaultLoggerMutex, hist>>
       ELSE /\ CanLock(defaultLoggerMutex)
            /\ defaultLoggerMutex' = Lock(defaultLoggerMutex)
            /\ hist' = [hist EXCEPT !.lastUpd.clean = FALSE, !.updArgs = @ \cup {l}]
            /\ gs' = [gs EXCEPT ![p] =
                   [IdleState EXCEPT !.pc = "ud_store", !.op = "UpdateDefaultLogger", !.lg = l,
                                     !.id = ncalls + 1]]
    /\ UNCHANGED <<heap, defaultLogger, out>>

\* a bug: the assignment is missing
StoreDefaultLost(old, l) == old

\* the value of the slot after the assignment defaultLogger = l
StoreDefault(old, l) == l

\* defaultLogger = l and the deferred Unlock
UpdateDefaultLoggerStore(p) ==
    /\ gs[p].pc = "ud_store"
    /\ defaultLogger' = StoreDefault(defaultLogger, gs[p].lg)
    /\ defaultLoggerMutex' = Unlock(defaultLoggerMutex)
    /\ hist' = [hist EXCEPT !.lastUpd = [x |-> gs[p].lg, clean |-> TRUE]]
    /\ gs' = [gs EXCEPT ![p] = Finish(gs[p], "ok")]
    /\ UNCHANGED <<heap, out, ncalls>>

(***************************************************************************)
(* Options whose writer list is a slice in memory (SpecOpts): a slice is a  *)
(* reference to a backing array and a length, so that a caller's slice and *)
(* the stored list can share an array or not.                              *)
(***************************************************************************)
\* a nil slice
NilSlice == [arr |-> 0, len |-> 0]

\* the elements of slice sl in memory mem
Deref(mem, sl) == IF sl.arr = 0 THEN <<>> ELSE SubSeq(mem[sl.arr], 1, sl.len)

\* a bug: the slice is stored as it is, o.w = w
CopyWritersAliased(mem, w) == [mem |-> mem, s |-> w]

\* o.w = make([]io.Writer, len(w)); copy(o.w, w): memory afterwards and the new slice
CopyWriters(mem, w) ==
    [mem |-> Append(mem, Deref(mem, w)), s |-> [arr |-> Len(mem) + 1, len |-> w.len]]

\* the Options value behind an Options whose writer list is a slice
OptionsValue(mem, o) == [o EXCEPT !.w = Deref(mem, o.w)]

\* nothing under test
OptTestIdle ==
    [pc |-> "idle", o |-> NilPtr, original |-> NilSlice, f |-> NilSlice, created |-> <<>>,
     mutated |-> FALSE, validated |-> FALSE, vArg |-> NilPtr, vErr |-> "", vAfter |-> NilPtr]

\* f := WithWriter(original...) when spread, the closure capturing the caller's
\* slice; f := WithWriter(a, b, ...) otherwise, the closure capturing the array the
\* call built from the arguments
WithWriterCall(spread) ==
    /\ optTest.pc = "start"
    /\ IF spread
       THEN /\ arrays' = arrays
            /\ optTest' = [optTest EXCEPT !.pc = "made", !.f = optTest.original,
                                          !.created = Deref(arrays, optTest.original)]
       ELSE /\ arrays' = Append(arrays, Deref(arrays, optTest.original))
            /\ optTest' = [optTest EXCEPT !.pc = "made",
                                          !.f = [arr |-> Len(arrays) + 1, len |-> optTest.original.len],
                                          !.created = Deref(arrays, optTest.original)]
    /\ UNCHANGED <<logVars, ljTest, parseTest, buildTest>>

\* original[i] = x, by the caller
MutateOriginal(i, x) ==
    /\ optTest.pc \in {"start", "made", "applied"}
    /\ i <= optTest.original.len
    /\ arrays[optTest.original.arr][i] # x
    /\ arrays' = [arrays EXCEPT ![optTest.original.arr][i] = x]
    /\ optTest' = [optTest EXCEPT !.mutated = @ \/ optTest.pc = "made"]
    /\ UNCHANGED <<logVars, ljTest, parseTest, buildTest>>

\* f(o) for the option WithWriter returned
ApplyWithWriter ==
    /\ optTest.pc = "made"
    /\ LET r == CopyWriters(arrays, optTest.f)
       IN  /\ arrays' = r.mem
           /\ optTest' = [optTest EXCEPT !.pc = "applied", !.o.w = r.s]
    /\ UNCHANGED <<logVars, ljTest, parseTest, buildTest>>

\* err := o.Validate()
ValidateCall ==
    /\ optTest.pc \in {"start", "made", "applied"}
    /\ ~optTest.validated
    /\ optTest' = [optTest EXCEPT !.validated = TRUE,
                                  !.vArg = OptionsValue(arrays, optTest.o),
                                  !.vErr = Validate(OptionsValue(arrays, optTest.o)),
                                  !.vAfter = OptionsValue(arrays, optTest.o)]
    /\ UNCHANGED <<logVars, arrays, ljTest, parseTest, buildTest>>

(***************************************************************************)
(* The rotating-file writer (SpecLumber).                                  *)
(***************************************************************************)
DefaultMaxRotatedSize == 100
DefaultMaxRetainDay == 7
DefaultMaxRetainFiles == 3

\* a bug: the MaxRetainFiles rule is missing
LjValidateWithoutFiles(c) ==
    IF c.FilePath = "" THEN "FilePath cannot be empty"
    ELSE IF c.MaxRotatedSize < 0 THEN "MaxRotatedSize cannot be negative"
    ELSE IF c.MaxRetainDay < 0 THEN "MaxRetainDay cannot be negative"
    ELSE ""

\* func (c *LumberJackConfig) Validate() error: "" stands for a nil error
LjValidate(c) ==
    IF c.FilePath = "" THEN "FilePath cannot be empty"
    ELSE IF c.MaxRotatedSize < 0 THEN "MaxRotatedSize cannot be negative"
    ELSE IF c.MaxRetainDay < 0 THEN "MaxRetainDay cannot be negative"
    ELSE IF c.MaxRetainFiles < 0 THEN "MaxRetainFiles cannot be negative"
    ELSE ""

\* a bug: the defaults overwrite the configured values
setDefaultsOverwriting(c) ==
    [c EXCEPT !.MaxRotatedSize = DefaultMaxRotatedSize, !.MaxRetainDay = DefaultMaxRetainDay,
              !.MaxRetainFiles = DefaultMaxRetainFiles]

\* func (c *LumberJackConfig) setDefaults(): the config afterwards
setDefaults(c) ==
    [c EXCEPT !.MaxRotatedSize = IF @ = 0 THEN DefaultMaxRotatedSize ELSE @,
              !.MaxRetainDay = IF @ = 0 THEN DefaultMaxRetainDay ELSE @,
              !.MaxRetainFiles = IF @ = 0 THEN DefaultMaxRetainFiles ELSE @]

\* func NewLumberJackWriter(conf LumberJackConfig) (io.Writer, error): conf is the
\* callee's copy
NewLumberJackWriter(conf) ==
    IF LjValidate(conf) # ""
    THEN [writer |-> NilPtr, err |-> "invalid lumberjack config: " \o LjValidate(conf)]
    ELSE LET c == setDefaults(conf)
         IN  [writer |-> [Filename |-> c.FilePath, MaxSize |-> c.MaxRotatedSize,
                          MaxAge |-> c.MaxRetainDay, MaxBackups |-> c.MaxRetainFiles,
                          LocalTime |-> c.LocalTime, Compress |-> c.Compress],
              err |-> ""]

\* func MustNewLumberJackWriter(conf LumberJackConfig) io.Writer
MustNewLumberJackWriter(conf) ==
    LET r == NewLumberJackWriter(conf)
    IN  IF r.err # "" THEN [panic |-> TRUE, writer |-> NilPtr, err |-> r.err]
        ELSE [panic |-> FALSE, writer |-> r.writer, err |-> ""]

\* nothing under test in the writer package
LjTestIdle ==
    [pc |-> "idle", conf |-> NilPtr, defaulted |-> <<>>, op |-> "", atCall |-> NilPtr,
     writer |-> NilPtr, err |-> "", panic |-> FALSE]

\* conf.setDefaults(), on the caller's config
SetDefaultsCall ==
    /\ ljTest.pc = "start"
    /\ Len(ljTest.defaulted) < MaxSetDefaults
    /\ ljTest' = [ljTest EXCEPT !.conf = setDefaults(@),
                                !.defaulted = Append(@, setDefaults(ljTest.conf))]
    /\ UNCHANGED <<logVars, arrays, optTest, parseTest, buildTest>>

\* w, err := NewLumberJackWriter(conf): the config is passed by value
NewLumberJackWriterCall ==
    /\ ljTest.pc = "start"
    /\ LET r == NewLumberJackWriter(ljTest.conf)
       IN  ljTest' = [ljTest EXCEPT !.pc = "done", !.op = "NewLumberJackWriter",
                                   !.atCall = ljTest.conf, !.writer = r.writer, !.err = r.err]
    /\ UNCHANGED <<logVars, arrays, optTest, parseTest, buildTest>>

\* w := MustNewLumberJackWriter(conf)
MustNewLumberJackWriterCall ==
    /\ ljTest.pc = "start"
    /\ LET r == MustNewLumberJackWriter(ljTest.conf)
       IN  ljTest' = [ljTest EXCEPT !.pc = "done", !.op = "MustNewLumberJackWriter",
                                   !.atCall = ljTest.conf, !.writer = r.writer,
                                   !.panic = r.panic]
    /\ UNCHANGED <<logVars, arrays, optTest, parseTest, buildTest>>

(***************************************************************************)
(* Levels as text (SpecParse).  A text is a sequence of characters.        *)
(***************************************************************************)
UpperCase ==
    <<"A", "B", "C", "D", "E", "F", "G", "H", "I", "J", "K", "L", "M",
      "N", "O", "P", "Q", "R", "S", "T", "U", "V", "W", "X", "Y", "Z">>

LowerCase ==
    <<"a", "b", "c", "d", "e", "f", "g", "h", "i", "j", "k", "l", "m",
      "n", "o", "p", "q", "r", "s", "t", "u", "v", "w", "x", "y", "z">>

\* the characters strings.TrimSpace removes
WhiteSpace == {" ", "\t", "\n", "\r"}

\* unicode.ToLower of one character
ToLowerRune(c) ==
    IF \E i \in DOMAIN UpperCase : UpperCase[i] = c
    THEN LowerCase[CHOOSE i \in DOMAIN UpperCase : UpperCase[i] = c]
    ELSE c

\* strings.ToLower
ToLower(text) == [i \in DOMAIN text |-> ToLowerRune(text[i])]

RECURSIVE TrimLeft(_)
TrimLeft(text) ==
    IF text # <<>> /\ Head(text) \in WhiteSpace THEN TrimLeft(Tail(text)) ELSE text

RECURSIVE TrimRight(_)
TrimRight(text) ==
    IF text # <<>> /\ text[Len(text)] \in WhiteSpace
    THEN TrimRight(SubSeq(text, 1, Len(text) - 1))
    ELSE text

\* strings.TrimSpace
TrimSpace(text) == TrimRight(TrimLeft(text))

\* var unmarshalLevelText = map[string]Level{...}
unmarshalLevelText ==
    (<<"n", "o", "n", "e">> :> NoneLevel) @@ (<<"d", "e", "b", "u", "g">> :> DebugLevel) @@
    (<<"i", "n", "f", "o">> :> InfoLevel) @@ (<<"w", "a", "r", "n">> :> WarnLevel) @@
    (<<"e", "r", "r", "o", "r">> :> ErrorLevel)

\* a bug: the text is looked up as it is given
ParseLevelAsGiven(text) ==
    IF text \in DOMAIN unmarshalLevelText THEN unmarshalLevelText[text] ELSE NoneLevel

\* func ParseLevel(text string) Level
ParseLevel(text) ==
    LET t == ToLower(TrimSpace(text))
    IN  IF t \in DOMAIN unmarshalLevelText THEN unmarshalLevelText[t] ELSE NoneLevel

Digits == <<"0", "1", "2", "3", "4", "5", "6", "7", "8", "9">>

RECURSIVE Itoa(_)
\* the verb %d of fmt.Sprintf
Itoa(n) ==
    IF n < 0 THEN <<"-">> \o Itoa(0 - n)
    ELSE IF n < 10 THEN <<Digits[n + 1]>>
    ELSE Itoa(n \div 10) \o <<Digits[(n % 10) + 1]>>

\* func (l Level) String() string
LevelString(l) ==
    CASE l = NoneLevel -> <<"n", "o", "n", "e">>
      [] l = DebugLevel -> <<"d", "e", "b", "u", "g">>
      [] l = InfoLevel -> <<"i", "n", "f", "o">>
      [] l = WarnLevel -> <<"w", "a", "r", "n">>
      [] l = ErrorLevel -> <<"e", "r", "r", "o", "r">>
      [] OTHER -> <<"L", "e", "v", "e", "l", "(">> \o Itoa(l) \o <<")">>

\* func (l Level) Enabled() bool
LevelEnabled(l) == l # NoneLevel

\* nothing under test
ParseTestIdle ==
    [pc |-> "idle", left |-> <<>>, core |-> <<>>, casing |-> "", right |-> <<>>, text |-> <<>>,
     lvl |-> NoneLevel, enabledOf |-> <<>>]

\* lvl := ParseLevel(text)
ParseLevelCall ==
    /\ parseTest.pc = "start"
    /\ parseTest' = [parseTest EXCEPT !.pc = "parsed", !.lvl = ParseLevel(parseTest.text)]
    /\ UNCHANGED <<logVars, arrays, optTest, ljTest, buildTest>>

\* l.Enabled()
LevelEnabledCall(l) ==
    /\ parseTest.pc \in {"start", "parsed"}
    /\ parseTest.enabledOf = <<>>
    /\ parseTest' = [parseTest EXCEPT !.enabledOf = <<[l |-> l, enabled |-> LevelEnabled(l)]>>]
    /\ UNCHANGED <<logVars, arrays, optTest, ljTest, buildTest>>

(***************************************************************************)
(* The option loop of NewLogger, iteration by iteration (SpecBuild).       *)
(***************************************************************************)
\* nothing under test
BuildTestIdle == [pc |-> "idle", funcOpts |-> <<>>, i |-> 0, st |-> NilPtr]

\* NewLogger(funcOpts...) is entered: opts := defaultOptions()
NewLoggerEnter ==
    /\ buildTest.pc = "start"
    /\ buildTest' = [buildTest EXCEPT !.pc = "loop", !.i = 1,
                                      !.st = [panic |-> FALSE, opts |-> defaultOptions]]
    /\ UNCHANGED <<logVars, arrays, optTest, ljTest, parseTest>>

\* one iteration of for _, f := range funcOpts { if f != nil { f(opts) } }
OptionLoopStep ==
    /\ buildTest.pc = "loop"
    /\ buildTest.i <= Len(buildTest.funcOpts)
    /\ LET st == ApplyOrSkip(buildTest.st, buildTest.funcOpts[buildTest.i])
       IN  buildTest' = IF st.panic THEN [buildTest EXCEPT !.pc = "panic", !.st = st]
                        ELSE [buildTest EXCEPT !.i = @ + 1, !.st = st]
    /\ UNCHANGED <<logVars, arrays, optTest, ljTest, parseTest>>

\* the loop ends: opts is the configuration Validate is called on
OptionLoopExit ==
    /\ buildTest.pc = "loop"
    /\ buildTest.i > Len(buildTest.funcOpts)
    /\ buildTest' = [buildTest EXCEPT !.pc = "applied"]
    /\ UNCHANGED <<logVars, arrays, optTest, ljTest, parseTest>>

(***************************************************************************)
(* The inputs.                                                             *)
(***************************************************************************)
Levels == {NoneLevel, DebugLevel, InfoLevel, WarnLevel, ErrorLevel}
Severities == {DebugLevel, InfoLevel, WarnLevel, ErrorLevel}

\* writer lists of WithWriter: none, buffers, standard output, nil entries
WriterLists ==
    {<<>>, <<Buf1>>, <<Buf1, Buf2>>, <<Stdout>>, <<Nil>>, <<Nil, Buf2>>, <<Buf1, Nil, Buf2>>}

FuncOptions ==
    {NilOption}
    \cup {WithLevel(l) : l \in Levels}
    \cup {WithWriter(w) : w \in WriterLists}
    \cup {WithCaller(TRUE)}
    \cup {WithEncoder(e) : e \in {EncoderJSON, EncoderConsole, "xml"}}
    \cup {WithDriver(d) : d \in {Nil, NewZapDriverName, NewNoneDriverName}}

OptionSeqs == SeqsUpTo(FuncOptions, MaxOpts)

RawOptions == {NilPtr, ZeroOptions}

FieldMaps == {NilMap, MapOf(<<>>), MapOf("k" :> "v"), MapOf("k" :> "v" @@ "j" :> "w")}

Methods ==
    {Method(s, "print", <<>>, a, NilPtr) : s \in Severities, a \in {<<>>, <<"x">>}}
    \cup {Method(s, "printf", <<"n=", "%s">>, a, NilPtr) : s \in Severities, a \in {<<>>, <<"7">>}}
    \cup {Method(s, "t", <<"m">>, <<>>, f) : s \in Severities, f \in FieldMaps}

\* the narrow inputs of SpecConc
ConcOptionSeqs ==
    {<<WithWriter(<<Buf1>>)>>, <<WithWriter(<<Buf2>>), WithLevel(InfoLevel)>>,
     <<WithDriver(NewNoneDriverName), WithWriter(<<Buf1>>)>>}

ConcMethods ==
    {Method(DebugLevel, "print", <<>>, <<>>, NilPtr),
     Method(InfoLevel, "printf", <<"n=", "%s">>, <<>>, NilPtr),
     Method(ErrorLevel, "t", <<"m">>, <<>>, NilMap)}

(***************************************************************************)
(* The specifications.                                                     *)
(***************************************************************************)
InitWith(n) ==
    /\ heap = <<InitLogger.logger>>
    /\ defaultLogger = 1
    /\ defaultLoggerMutex = RWMutexZero
    /\ out = [d \in Dests |-> <<>>]
    /\ gs = [p \in 1..n |-> IdleState]
    /\ ncalls = 0
    /\ hist = [origin |-> <<[by |-> "init", arg |-> <<>>]>>, updArgs |-> {},
               lastUpd |-> [x |-> 0, clean |-> FALSE], closeReturned |-> {},
               syncs |-> <<>>]


Init ==
    /\ InitWith(NumGoroutines)
    /\ arrays = <<>>
    /\ optTest = OptTestIdle
    /\ ljTest = LjTestIdle
    /\ parseTest = ParseTestIdle
    /\ buildTest = BuildTestIdle

\* Spec: the main goroutine constructs loggers over the wide inputs and calls them
NewLoggerAny == Len(heap) <= MaxLoggers /\ \E funcOpts \in OptionSeqs : NewLoggerCall(1, funcOpts) /\ UNCHANGED auxVars

NewZapDriverAny == Len(heap) <= MaxLoggers /\ \E opts \in RawOptions : NewZapDriverCall(1, opts) /\ UNCHANGED auxVars

LogAny == ncalls < MaxCalls /\ \E l \in DOMAIN heap, m \in Methods : LogCall(1, l, m) /\ UNCHANGED auxVars

MethodEnterMain == MethodEnter(1) /\ UNCHANGED auxVars

ZReturnMain == ZReturn(1) /\ UNCHANGED auxVars

EmitMain == Emit(1) /\ UNCHANGED auxVars

Next ==
    \/ NewLoggerAny
    \/ NewZapDriverAny
    \/ LogAny
    \/ MethodEnterMain
    \/ ZReturnMain
    \/ EmitMain

Spec == Init /\ [][Next]_vars

\* SpecConc: NumGoroutines goroutines over the narrow inputs, every operation
Goroutines == 1..NumGoroutines

ConcNewLogger ==
    /\ \E p \in Goroutines :
           Len(heap) <= MaxConcLoggers /\ \E funcOpts \in ConcOptionSeqs : NewLoggerCall(p, funcOpts)
    /\ UNCHANGED auxVars

ConcZapLoggerLiteral == \E p \in Goroutines : Len(heap) <= MaxConcLoggers /\ ZapLoggerLiteral(p) /\ UNCHANGED auxVars

ConcLog ==
    /\ \E p \in Goroutines :
           ncalls < MaxConcCalls /\ \E l \in DOMAIN heap, m \in ConcMethods : LogCall(p, l, m)
    /\ UNCHANGED auxVars

ConcPackage ==
    /\ \E p \in Goroutines : ncalls < MaxConcCalls /\ \E m \in ConcMethods : PackageCall(p, m)
    /\ UNCHANGED auxVars

ConcDefaultLogger == \E p \in Goroutines : ncalls < MaxConcCalls /\ DefaultLoggerCall(p) /\ UNCHANGED auxVars

ConcClose ==
    /\ \E p \in Goroutines : ncalls < MaxConcCalls /\ \E l \in DOMAIN heap : CloseCall(p, l)
    /\ UNCHANGED auxVars

ConcUpdate ==
    /\ \E p \in Goroutines :
           ncalls < MaxConcCalls /\ \E l \in 0..Len(heap) : UpdateDefaultLoggerCall(p, l)
    /\ UNCHANGED auxVars

ConcDefaultLoggerReturn == \E p \in Goroutines : DefaultLoggerReturn(p) /\ UNCHANGED auxVars

ConcMethodEnter == \E p \in Goroutines : MethodEnter(p) /\ UNCHANGED auxVars

ConcZReturn == \E p \in Goroutines : ZReturn(p) /\ UNCHANGED auxVars

ConcEmit == \E p \in Goroutines : Emit(p) /\ UNCHANGED auxVars

ConcCloseReturn == \E p \in Goroutines : CloseReturn(p) /\ UNCHANGED auxVars

ConcUpdateStore == \E p \in Goroutines : UpdateDefaultLoggerStore(p) /\ UNCHANGED auxVars

NextConc ==
    \/ ConcNewLogger
    \/ ConcZapLoggerLiteral
    \/ ConcLog
    \/ ConcPackage
    \/ ConcDefaultLogger
    \/ ConcClose
    \/ ConcUpdate
    \/ ConcDefaultLoggerReturn
    \/ ConcMethodEnter
    \/ ConcZReturn
    \/ ConcEmit
    \/ ConcCloseReturn
    \/ ConcUpdateStore

SpecConc == Init /\ [][NextConc]_vars

\* SpecRace: the goroutines share one logger whose destination is an in-memory
\* buffer (or a buffer and standard output) and call Infof on it; the backend call
\* is taken step by step
RaceOptionSeqs ==
    {<<WithWriter(<<Buf1>>), WithLevel(InfoLevel)>>, <<WithWriter(<<Buf1>>)>>,
     <<WithWriter(<<Buf1, Stdout>>)>>}

RaceMethods ==
    {Method(InfoLevel, "printf", <<"n=", "%s">>, <<"7">>, NilPtr),
     Method(DebugLevel, "printf", <<"n=", "%s">>, <<"7">>, NilPtr)}

RaceNewLogger ==
    /\ Len(heap) = 1
    /\ \E funcOpts \in RaceOptionSeqs : NewLoggerCall(1, funcOpts)
    /\ UNCHANGED auxVars

RaceLog ==
    /\ Len(heap) = 2
    /\ ncalls < MaxRaceCalls
    /\ \E p \in Goroutines, m \in RaceMethods : LogCall(p, 2, m)
    /\ UNCHANGED auxVars

RaceWriteStart == \E p \in Goroutines : WriteStart(p) /\ UNCHANGED auxVars

RaceWriteLen == \E p \in Goroutines : WriteLen(p) /\ UNCHANGED auxVars

RaceWriteCopy == \E p \in Goroutines : WriteCopy(p) /\ UNCHANGED auxVars

NextRace ==
    \/ RaceNewLogger
    \/ RaceLog
    \/ ConcMethodEnter
    \/ ConcZReturn
    \/ RaceWriteStart
    \/ RaceWriteLen
    \/ RaceWriteCopy

SpecRace == Init /\ [][NextRace]_vars

\* SpecOpts: an Options value of any content, a caller's slice of writers; the
\* caller makes a WithWriter option from the slice, applies it, validates the
\* options and overwrites elements of its slice, in any order
OptWriters == {Stdout, Stderr, Buf1}

PrevLists == {<<>>, <<Stdout>>, <<Buf1, Buf2>>}

OptDrivers == {Nil, NewZapDriverName, NewNoneDriverName}

OptEncoders == {EncoderJSON, EncoderConsole, "xml", ""}

InitOpts ==
    /\ InitWith(NumGoroutines)
    /\ ljTest = LjTestIdle
    /\ parseTest = ParseTestIdle
    /\ buildTest = BuildTestIdle
    /\ \E prev \in PrevLists, orig \in SeqsUpTo(OptWriters, MaxSliceLen),
          d \in OptDrivers, e \in OptEncoders, lvl \in {NoneLevel, InfoLevel} :
           /\ arrays = <<prev, orig>>
           /\ optTest = [OptTestIdle EXCEPT
                            !.pc = "start",
                            !.o = [lvl |-> lvl, w |-> [arr |-> 1, len |-> Len(prev)],
                                   encoder |-> e, caller |-> FALSE, driver |-> d],
                            !.original = [arr |-> 2, len |-> Len(orig)]]

WithWriterAny == \E spread \in BOOLEAN : WithWriterCall(spread)

MutateOriginalAny == \E i \in 1..MaxSliceLen, x \in OptWriters : MutateOriginal(i, x)

NextOpts ==
    \/ WithWriterAny
    \/ MutateOriginalAny
    \/ ApplyWithWriter
    \/ ValidateCall

SpecOpts == InitOpts /\ [][NextOpts]_vars

\* SpecLumber: a caller's LumberJackConfig of any content; the caller applies
\* setDefaults to it and constructs a writer from it
LjPaths == {"", "app.log"}

LjInts == {-1, 0, 5}

InitLumber ==
    /\ InitWith(NumGoroutines)
    /\ arrays = <<>>
    /\ optTest = OptTestIdle
    /\ parseTest = ParseTestIdle
    /\ buildTest = BuildTestIdle
    /\ \E path \in LjPaths, size \in LjInts, day \in LjInts, files \in LjInts,
          localTime \in BOOLEAN, compress \in BOOLEAN :
           ljTest = [LjTestIdle EXCEPT
                        !.pc = "start",
                        !.conf = [FilePath |-> path, MaxRotatedSize |-> size,
                                  MaxRetainDay |-> day, MaxRetainFiles |-> files,
                                  LocalTime |-> localTime, Compress |-> compress]]

NextLumber ==
    \/ SetDefaultsCall
    \/ NewLumberJackWriterCall
    \/ MustNewLumberJackWriterCall

SpecLumber == InitLumber /\ [][NextLumber]_vars

\* SpecParse: a text made of a name or another word in some letter case between
\* two runs of white space; the caller parses it and asks whether levels are enabled
Pads == {<<>>, <<" ">>, <<"\t">>, <<" ", "\n">>, <<"\r", " ", " ">>}

Cores ==
    {<<>>, <<"n", "o", "n", "e">>, <<"d", "e", "b", "u", "g">>, <<"i", "n", "f", "o">>,
     <<"w", "a", "r", "n">>, <<"e", "r", "r", "o", "r">>,
     <<"w", "a", "r", "n", "i", "n", "g">>, <<"i", "n", "f">>, <<"i", "n", " ", "f", "o">>,
     <<"i", "n", "v", "a", "l", "i", "d">>, <<"f", "a", "t", "a", "l">>, <<"2">>}

Casings == {"lower", "upper", "title", "mixed"}

\* the characters of a lower-case word put in a letter case
ToUpperRune(c) ==
    IF \E i \in DOMAIN LowerCase : LowerCase[i] = c
    THEN UpperCase[CHOOSE i \in DOMAIN LowerCase : LowerCase[i] = c]
    ELSE c

InCase(core, casing) ==
    [i \in DOMAIN core |->
        CASE casing = "lower" -> core[i]
          [] casing = "upper" -> ToUpperRune(core[i])
          [] casing = "title" -> IF i = 1 THEN ToUpperRune(core[i]) ELSE core[i]
          [] casing = "mixed" -> IF i % 2 = 0 THEN ToUpperRune(core[i]) ELSE core[i]]

\* values of type Level (int8), the five constants among them
LevelValues == {-128, -1, 0, 1, 2, 3, 4, 5, 99, 127}

InitParse ==
    /\ InitWith(NumGoroutines)
    /\ arrays = <<>>
    /\ optTest = OptTestIdle
    /\ ljTest = LjTestIdle
    /\ buildTest = BuildTestIdle
    /\ \E left \in Pads, core \in Cores, casing \in Casings, right \in Pads :
           parseTest = [ParseTestIdle EXCEPT
                           !.pc = "start", !.left = left, !.core = core, !.casing = casing,
                           !.right = right, !.text = left \o InCase(core, casing) \o right]

LevelEnabledAny == \E l \in LevelValues : LevelEnabledCall(l)

NextParse ==
    \/ ParseLevelCall
    \/ LevelEnabledAny

SpecParse == InitParse /\ [][NextParse]_vars

\* SpecBuild: one NewLogger call over any list of at most MaxBuildOpts options
BuildOptions ==
    {NilOption, WithLevel(InfoLevel), WithLevel(ErrorLevel), WithWriter(<<Buf1>>),
     WithWriter(<<Buf2>>), WithCaller(TRUE), WithCaller(FALSE), WithEncoder(EncoderConsole),
     WithEncoder("xml"), WithDriver(NewNoneDriverName), WithDriver(Nil)}

InitBuild ==
    /\ InitWith(NumGoroutines)
    /\ arrays = <<>>
    /\ optTest = OptTestIdle
    /\ ljTest = LjTestIdle
    /\ parseTest = ParseTestIdle
    /\ \E funcOpts \in SeqsUpTo(BuildOptions, MaxBuildOpts) :
           buildTest = [BuildTestIdle EXCEPT !.pc = "start", !.funcOpts = funcOpts]

NextBuild ==
    \/ NewLoggerEnter
    \/ OptionLoopStep
    \/ OptionLoopExit

SpecBuild == InitBuild /\ [][NextBuild]_vars

\* SpecCaller: a logger with or without caller capture is constructed and may be
\* made the default logger; methods are called on it and package-level functions
\* are called
CallerOptionSeqs ==
    {<<WithWriter(<<Buf1>>), WithCaller(TRUE)>>, <<WithWriter(<<Buf1>>), WithCaller(FALSE)>>,
     <<WithWriter(<<Buf1>>), WithCaller(TRUE), WithLevel(WarnLevel)>>}

CallerNewLogger ==
    /\ Len(heap) = 1
    /\ \E funcOpts \in CallerOptionSeqs : NewLoggerCall(1, funcOpts)
    /\ UNCHANGED auxVars

CallerUpdate ==
    /\ Len(heap) = 2
    /\ ncalls < MaxCallerCalls
    /\ UpdateDefaultLoggerCall(1, 2)
    /\ UNCHANGED auxVars

CallerLog ==
    /\ ncalls < MaxCallerCalls
    /\ \E l \in {1, 2}, m \in ConcMethods : l \in DOMAIN heap /\ LogCall(1, l, m)
    /\ UNCHANGED auxVars

CallerPackage ==
    /\ ncalls < MaxCallerCalls
    /\ \E m \in ConcMethods : PackageCall(1, m)
    /\ UNCHANGED auxVars

NextCaller ==
    \/ CallerNewLogger
    \/ CallerUpdate
    \/ CallerLog
    \/ CallerPackage
    \/ ConcUpdateStore
    \/ ConcDefaultLoggerReturn
    \/ ConcMethodEnter
    \/ ConcZReturn
    \/ ConcEmit

SpecCaller == Init /\ [][NextCaller]_vars

(***************************************************************************)
(* Vocabulary of the properties.                                           *)
(***************************************************************************)
\* goroutine p has completed a call and not begun another
Done(p) == gs[p].pc = "idle" /\ gs[p].op # ""

\* destination d holds a record emitted by call number id
Wrote(d, id) ==
    \E i \in DOMAIN out[d] : out[d][i].kind = "record" /\ out[d][i].call = id

\* the records call number id left on destination d, in order
Recs(d, id) == SelectSeq(out[d], LAMBDA r : r.kind = "record" /\ r.call = id)

\* the configuration an option list leaves before validation
Configured(funcOpts) == ApplyAll([panic |-> FALSE, opts |-> defaultOptions], funcOpts).opts

WithoutNil(funcOpts) == SelectSeq(funcOpts, LAMBDA f : f # NilOption)

MadeByNewLogger(l) == hist.origin[l].by = "NewLogger"

\* the non-nil destinations the caller of NewLogger supplied for logger l
Supplied(l) == Range(Configured(hist.origin[l].arg).w) \ {Nil}

\* the destinations logger l was constructed with
BuiltSyncers(l) ==
    LET o == hist.origin[l]
        lg == CASE o.by = "init" -> InitLogger.logger
                [] o.by = "NewLogger" -> NewLogger(o.arg).logger
                [] o.by = "NewZapDriver" -> NewZapDriver(o.arg).logger
                [] o.by = "literal" -> ZapLoggerZero
    IN  IF lg.type = "zapLogger" /\ lg.zap # NilPtr THEN Range(lg.zap.syncers) ELSE {}

\* the options NewLogger hands to the driver for logger l
Effective(l) == ValidateOrDefault(Configured(hist.origin[l].arg))

\* a call of severity sev passes the gate of a logger configured with level lvl
Passes(sev, lvl) == lvl # NoneLevel /\ sev >= lvl

\* logger l is the open default logger of the fallback path: Debug, JSON, caller
\* off, standard output
IsFallbackLogger(l) ==
    /\ heap[l].type = "zapLogger"
    /\ heap[l].zap = [lvl |-> ZapDebugLevel, encoder |-> EncoderJSON, syncers |-> <<Stdout>>,
                      caller |-> FALSE]
    /\ ~heap[l].closed

(***************************************************************************)
(* C1 - C5: construction and level gating (Spec).                          *)
(***************************************************************************)
\* logger l was made by NewLogger from a valid configuration with the Zap driver,
\* a level in Debug..Error and exactly one destination
C1_Case(l) ==
    /\ MadeByNewLogger(l)
    /\ LET o == Configured(hist.origin[l].arg)
       IN  /\ Validate(o) = ""
           /\ o.driver = NewZapDriverName
           /\ o.lvl \in Severities
           /\ Len(o.w) = 1
           /\ o.w[1] # Nil

\* C1: level gating. A completed call of a method of severity s on a Zap-driver
\* logger built from a valid configuration with level L in Debug..Error and one
\* destination has written its record to that destination iff s >= L.
C1_LevelGating ==
    \A p \in DOMAIN gs :
        (Done(p) /\ gs[p].op = "Log" /\ C1_Case(gs[p].lg)) =>
            LET o == Configured(hist.origin[gs[p].lg].arg)
            IN  /\ gs[p].res = "ok"
                /\ Wrote(o.w[1], gs[p].id) <=> gs[p].m.sev >= o.lvl

\* a Warn call dropped by an Error-level logger whose destination is a buffer
C1_Witness ==
    \E p \in DOMAIN gs :
        /\ Done(p) /\ gs[p].op = "Log" /\ C1_Case(gs[p].lg)
        /\ Configured(hist.origin[gs[p].lg].arg).lvl = ErrorLevel
        /\ Configured(hist.origin[gs[p].lg].arg).w = <<Buf1>>
        /\ gs[p].m.sev = WarnLevel
        /\ out[Buf1] = <<>>

\* C2, as claimed: a logger built as NewLogger(WithLevel(L)) with no other option
\* emits nothing for a call below L.
C2_WithLevelAlone ==
    \A p \in DOMAIN gs :
        (/\ Done(p) /\ gs[p].op = "Log" /\ MadeByNewLogger(gs[p].lg)
         /\ \E L \in Levels : /\ hist.origin[gs[p].lg].arg = <<WithLevel(L)>>
                              /\ gs[p].m.sev < L)
        => \A d \in Dests : ~Wrote(d, gs[p].id)

\* the type of logger a driver produces
Produces(d) == IF d = NewNoneDriverName THEN "NoneLogger" ELSE "zapLogger"

\* C3, as claimed: NewLogger(WithDriver(D), ...) with D non-nil returns the logger
\* D produces.
C3_DriverSubstitution ==
    \A l \in DOMAIN heap :
        (MadeByNewLogger(l) /\ Configured(hist.origin[l].arg).driver # Nil) =>
            heap[l].type = Produces(Configured(hist.origin[l].arg).driver)

\* logger l was made by NewLogger from options that fail validation
C4_Case(l) == MadeByNewLogger(l) /\ Validate(Configured(hist.origin[l].arg)) # ""

\* C4, as claimed: on a validation failure the logger is the default one, and none
\* of the destinations the caller supplied receives a record.
C4_FallbackAsClaimed ==
    /\ \A l \in DOMAIN heap : C4_Case(l) => IsFallbackLogger(l)
    /\ \A p \in DOMAIN gs :
           (Done(p) /\ gs[p].op = "Log" /\ C4_Case(gs[p].lg)) =>
               \A d \in Supplied(gs[p].lg) : ~Wrote(d, gs[p].id)

\* C4, amended: on a validation failure the logger is the default one (Debug, JSON,
\* caller off, standard output); every call writes its record to standard output and
\* to no other destination, so no destination the caller supplied other than
\* standard output itself receives a record.
C4_Fallback ==
    /\ \A l \in DOMAIN heap : C4_Case(l) => IsFallbackLogger(l)
    /\ \A p \in DOMAIN gs :
           (Done(p) /\ gs[p].op = "Log" /\ C4_Case(gs[p].lg)) =>
               /\ gs[p].res = "ok"
               /\ Wrote(Stdout, gs[p].id)
               /\ \A d \in Dests \ {Stdout} : ~Wrote(d, gs[p].id)

\* an Error-level logger with a buffer and an unknown encoder: its Debug call went
\* to standard output and not to the buffer
C4_Witness ==
    \E p \in DOMAIN gs :
        /\ Done(p) /\ gs[p].op = "Log" /\ C4_Case(gs[p].lg)
        /\ Configured(hist.origin[gs[p].lg].arg).w = <<Buf1>>
        /\ Configured(hist.origin[gs[p].lg].arg).encoder = "xml"
        /\ gs[p].m.sev = DebugLevel
        /\ Wrote(Stdout, gs[p].id)
        /\ out[Buf1] = <<>>

\* C5: NewLogger is total. Every NewLogger call returns a non-nil logger without
\* panicking, the logger being the one the option list without its nil entries
\* gives; and a call on a logger NewLogger returned does not panic.
C5_NewLoggerTotal ==
    \A p \in DOMAIN gs :
        /\ (Done(p) /\ gs[p].op = "NewLogger") =>
               /\ gs[p].res = "ok"
               /\ gs[p].ret \in DOMAIN heap
               /\ heap[gs[p].ret] = NewLogger(WithoutNil(gs[p].arg)).logger
        /\ (Done(p) /\ gs[p].op = "Log" /\ MadeByNewLogger(gs[p].lg)) => gs[p].res = "ok"

\* NewLogger(nil, WithDriver(nil)) has returned a logger
C5_Witness ==
    \E p \in DOMAIN gs :
        /\ Done(p) /\ gs[p].op = "NewLogger"
        /\ gs[p].arg = <<NilOption, WithDriver(Nil)>>
        /\ gs[p].res = "ok"
        /\ heap[gs[p].ret].type = "zapLogger"

(***************************************************************************)
(* C6 - C10: the default slot, Close and the no-op driver (SpecConc).      *)
(***************************************************************************)
\* the slot holds a logger: the init-time one or the argument of some update
C6_Slot == defaultLogger \in DOMAIN heap /\ defaultLogger \in {1} \cup hist.updArgs

\* a step in which some goroutine calls UpdateDefaultLogger(nil) leaves the slot as it was
C6_NilStep ==
    (\E p \in DOMAIN gs : /\ gs'[p].id # gs[p].id
                          /\ gs'[p].op = "UpdateDefaultLogger"
                          /\ gs'[p].lg = 0)
    => defaultLogger' = defaultLogger

\* C6: default-slot invariant. In every reachable state the slot holds a non-nil
\* logger that is the init-time logger or the argument of some UpdateDefaultLogger
\* call, and UpdateDefaultLogger(nil) leaves the slot unchanged.
C6_DefaultSlot == []C6_Slot /\ [][C6_NilStep]_vars

\* UpdateDefaultLogger(nil) has returned after the slot was replaced
C6_Witness ==
    \E p \in DOMAIN gs :
        /\ Done(p) /\ gs[p].op = "UpdateDefaultLogger" /\ gs[p].lg = 0
        /\ defaultLogger # 1

\* C7: replace-then-read. A DefaultLogger() or package-level call that begins after
\* UpdateDefaultLogger(X) returned and before a later update reads exactly X; a
\* package-level call is delegated to X, and its record is on X's destinations
\* and on no other.
C7_ReplaceThenRead ==
    \A p \in DOMAIN gs :
        (gs[p].after # 0 /\ gs[p].pc # "dl_read") =>
            /\ gs[p].op = "DefaultLogger" => gs[p].ret = gs[p].after
            /\ gs[p].op = "Package" =>
                   /\ gs[p].lg = gs[p].after
                   /\ \A d \in Dests : Wrote(d, gs[p].id) => d \in BuiltSyncers(gs[p].after)
                   /\ (Done(p) /\ gs[p].res = "ok" /\ heap[gs[p].after].type = "zapLogger"
                       /\ MethodLevel(gs[p].m.sev) >= gs[p].h.lvl)
                      => \A d \in BuiltSyncers(gs[p].after) : Wrote(d, gs[p].id)

\* a package-level call made after the slot was replaced wrote to the new
\* logger's buffer and not to standard output
C7_Witness ==
    \E p \in DOMAIN gs :
        /\ Done(p) /\ gs[p].op = "Package" /\ gs[p].after # 0 /\ gs[p].after # 1
        /\ Wrote(Buf1, gs[p].id)
        /\ ~Wrote(Stdout, gs[p].id)

\* the method goroutine p called found its zapLogger unusable: never given a
\* backend handle, or closed by a Close that had returned
C8_Case(p) ==
    /\ gs[p].op \in {"Log", "Package"}
    /\ gs[p].lg # 0
    /\ heap[gs[p].lg].type = "zapLogger"
    /\ hist.origin[gs[p].lg].by = "literal" \/ gs[p].late

\* C8: fatal usage. A method invoked on a zapLogger whose handle was never assigned,
\* or after Close has returned, panics and writes nothing.
C8_FatalUsage ==
    \A p \in DOMAIN gs :
        C8_Case(p) =>
            /\ gs[p].pc \in {"dispatch", "z_check", "idle"}
            /\ gs[p].pc = "idle" => gs[p].res = "panic"
            /\ \A d \in Dests : ~Wrote(d, gs[p].id)

\* a method called on a logger after its Close returned has panicked
C8_Witness ==
    \E p \in DOMAIN gs :
        /\ C8_Case(p) /\ Done(p) /\ gs[p].late
        /\ hist.origin[gs[p].lg].by = "NewLogger"
        /\ gs[p].res = "panic"

\* C9: Close is idempotent. A Close that begins after a Close of the same logger
\* has returned returns nil without panicking and leaves the logger closed, its
\* handle nil.
C9_CloseIdempotent ==
    \A p \in DOMAIN gs :
        (Done(p) /\ gs[p].op = "Close" /\ gs[p].late) =>
            /\ gs[p].res = "ok"
            /\ gs[p].err = ""
            /\ heap[gs[p].lg].closed
            /\ heap[gs[p].lg].zap = NilPtr

\* two goroutines have each completed a Close of the init-time logger, the first
\* of which reported the failed Sync of standard output
C9_Witness ==
    \E p, q \in DOMAIN gs :
        /\ p # q
        /\ Done(p) /\ gs[p].op = "Close" /\ gs[p].lg = 1 /\ ~gs[p].late /\ gs[p].err # ""
        /\ Done(q) /\ gs[q].op = "Close" /\ gs[q].lg = 1 /\ gs[q].late

\* logger l is the product of the no-op driver
C10_Case(l) ==
    /\ l # 0
    /\ MadeByNewLogger(l)
    /\ Validate(Configured(hist.origin[l].arg)) = ""
    /\ Configured(hist.origin[l].arg).driver = NewNoneDriverName

\* C10: no-op driver. A method call on a logger made with WithDriver(NewNoneDriver)
\* returns normally without taking a lock or reaching the backend and writes
\* nothing; the logger stays a NoneLogger, and a writer given to it alone stays empty.
C10_NoneLoggerNoOp ==
    /\ \A p \in DOMAIN gs :
           (gs[p].op \in {"Log", "Package"} /\ C10_Case(gs[p].lg)) =>
               /\ gs[p].pc \in {"dispatch", "idle"}
               /\ gs[p].pc = "idle" => gs[p].res = "ok"
               /\ \A d \in Dests : ~Wrote(d, gs[p].id)
    /\ \A l \in DOMAIN heap :
           C10_Case(l) =>
               /\ heap[l] = [type |-> "NoneLogger"]
               /\ \A d \in Supplied(l) :
                      (\A k \in DOMAIN heap : d \notin BuiltSyncers(k)) => out[d] = <<>>

\* a package-level Errort with a nil map has returned from the NoneLogger in the
\* slot, the buffer given to that logger being empty
C10_Witness ==
    \E p \in DOMAIN gs :
        /\ Done(p) /\ gs[p].op = "Package" /\ C10_Case(gs[p].lg)
        /\ gs[p].m.style = "t"
        /\ Supplied(gs[p].lg) = {Buf1}
        /\ out[Buf1] = <<>>
        /\ gs[p].res = "ok"

(***************************************************************************)
(* C11 - C16: structured fields, destinations, NoneLevel, options.         *)
(***************************************************************************)
\* goroutine p has returned from a Debugt/Infot/Warnt/Errort call on a backend logger
C11_Case(p) ==
    /\ Done(p) /\ gs[p].op = "Log" /\ gs[p].m.style = "t"
    /\ heap[gs[p].lg].type = "zapLogger"
    /\ gs[p].res = "ok"

\* list kv is k1, v1, ..., kn, vn for the n entries of map t, each key once
C11_Pairs(kv, t) ==
    /\ Len(kv) = 2 * MapLen(t)
    /\ \A k \in DOMAIN t.kv :
           \E i \in 1..MapLen(t) :
               /\ kv[2 * i - 1] = k
               /\ kv[2 * i] = t.kv[k]
               /\ \A j \in 1..MapLen(t) : kv[2 * j - 1] = k => j = i

\* C11: empty structured fields. A Debugt..Errort call with a nil or empty map
\* leaves on every destination exactly the record the print-style call with the
\* message alone emits, with no key/value payload, and keysAndValues gives nil;
\* for a map of n entries keysAndValues gives a list of length 2n in which every
\* key is followed by its value and appears once, and that list is the payload.
C11_EmptyFields ==
    \A p \in DOMAIN gs :
        C11_Case(p) =>
            LET m == gs[p].m
                asPrint == Method(m.sev, "print", <<>>, <<Concat(m.text)>>, NilPtr)
            IN  /\ MapLen(m.fields) = 0 =>
                       /\ keysAndValues(m.fields) = {NilPtr}
                       /\ \A d \in Range(gs[p].h.syncers) :
                              /\ {Recs(d, gs[p].id)} = Delegate(gs[p].h, gs[p].id, asPrint, CallStack(gs[p].op))
                              /\ \A i \in DOMAIN Recs(d, gs[p].id) :
                                     /\ Recs(d, gs[p].id)[i].msg = Concat(m.text)
                                     /\ Recs(d, gs[p].id)[i].fields = <<>>
                /\ MapLen(m.fields) > 0 =>
                       /\ \A kv \in keysAndValues(m.fields) : C11_Pairs(kv, m.fields)
                       /\ \A d \in Range(gs[p].h.syncers) :
                              \A i \in DOMAIN Recs(d, gs[p].id) :
                                  C11_Pairs(Recs(d, gs[p].id)[i].fields, m.fields)

\* an Infot call with a nil map has left the bare message on the buffer
C11_Witness ==
    \E p \in DOMAIN gs :
        /\ C11_Case(p) /\ gs[p].m.fields = NilMap /\ gs[p].m.sev = InfoLevel
        /\ Len(Recs(Buf1, gs[p].id)) = 1
        /\ Recs(Buf1, gs[p].id)[1].msg = "m"
        /\ Recs(Buf1, gs[p].id)[1].fields = <<>>

\* logger l was made by NewLogger from a valid configuration with the backend driver
C12_Case(l) ==
    /\ MadeByNewLogger(l)
    /\ Validate(Configured(hist.origin[l].arg)) = ""
    /\ Configured(hist.origin[l].arg).driver = NewZapDriverName

\* C12: fan-out. Constructing a backend logger with destinations w1..wn, nil
\* entries included, does not panic; a call on it does not panic, and a record
\* that passes the level gate is written to every non-nil wi.
C12_FanOut ==
    \A p \in DOMAIN gs :
        /\ (Done(p) /\ gs[p].op = "NewLogger"
            /\ Validate(Configured(gs[p].arg)) = ""
            /\ Configured(gs[p].arg).driver = NewZapDriverName) => gs[p].res = "ok"
        /\ (Done(p) /\ gs[p].op = "Log" /\ C12_Case(gs[p].lg)) =>
               LET o == Configured(hist.origin[gs[p].lg].arg)
               IN  /\ gs[p].res = "ok"
                   /\ Passes(gs[p].m.sev, o.lvl) =>
                          \A d \in Range(o.w) \ {Nil} : Wrote(d, gs[p].id)

\* a call on a logger with destinations buf1, nil, buf2 has written to both buffers
C12_Witness ==
    \E p \in DOMAIN gs :
        /\ Done(p) /\ gs[p].op = "Log" /\ C12_Case(gs[p].lg)
        /\ Configured(hist.origin[gs[p].lg].arg).w = <<Buf1, Nil, Buf2>>
        /\ gs[p].res = "ok"
        /\ Wrote(Buf1, gs[p].id) /\ Wrote(Buf2, gs[p].id)

\* C13, as claimed: when no destination is left after the nil ones are skipped,
\* the configured list being empty or all nil, a record that passes the gate of a
\* backend logger is written to standard output.
C13_EmptyAfterFiltering ==
    \A p \in DOMAIN gs :
        (/\ Done(p) /\ gs[p].op = "Log" /\ MadeByNewLogger(gs[p].lg)
         /\ Effective(gs[p].lg).driver = NewZapDriverName
         /\ Range(Effective(gs[p].lg).w) \ {Nil} = {}
         /\ Passes(gs[p].m.sev, Effective(gs[p].lg).lvl))
        => Wrote(Stdout, gs[p].id)

\* C14: NoneLevel disables logging. A call of any method at any severity on a
\* backend logger built from a valid configuration with level NoneLevel returns
\* normally and writes no record to any destination.
C14_NoneLevel ==
    \A p \in DOMAIN gs :
        (/\ Done(p) /\ gs[p].op = "Log" /\ C12_Case(gs[p].lg)
         /\ Configured(hist.origin[gs[p].lg].arg).lvl = NoneLevel)
        => /\ gs[p].res = "ok"
           /\ \A d \in Dests : ~Wrote(d, gs[p].id)

\* an Errorf call on a NoneLevel logger with a buffer has returned, the buffer empty
C14_Witness ==
    \E p \in DOMAIN gs :
        /\ Done(p) /\ gs[p].op = "Log" /\ C12_Case(gs[p].lg)
        /\ Configured(hist.origin[gs[p].lg].arg).lvl = NoneLevel
        /\ Configured(hist.origin[gs[p].lg].arg).w = <<Buf1>>
        /\ gs[p].m.sev = ErrorLevel /\ gs[p].m.style = "printf"
        /\ gs[p].res = "ok"
        /\ out[Buf1] = <<>>

\* the stored list is the list the option was made from, unless the caller
\* overwrote its slice before applying the option
C15_Stored ==
    (optTest.pc = "applied" /\ ~optTest.mutated) =>
        Deref(arrays, optTest.o.w) = optTest.created

\* once the option is applied, no step changes the stored list
C15_Stable ==
    optTest.pc = "applied" => Deref(arrays', optTest'.o.w) = Deref(arrays, optTest.o.w)

C16_Validate ==
    optTest.validated =>
        LET a == optTest.vArg
            encoderOk == a.encoder = "json" \/ a.encoder = "console"
        IN  /\ optTest.vErr = "" <=> (a.driver # Nil /\ encoderOk /\ Len(a.w) > 0)
            /\ a.driver = Nil => optTest.vErr = "driver cannot be nil"
            /\ (a.driver # Nil /\ ~encoderOk) =>
                   optTest.vErr = "encoder must be either \"json\" or \"console\""
            /\ (a.driver # Nil /\ encoderOk /\ Len(a.w) = 0) =>
                   optTest.vErr = "at least one writer must be specified"
            /\ optTest.vAfter = a
            /\ OptionsValue(arrays, optTest.o) = a \/ optTest.pc = "applied"

\* Validate was called on Options with a nil driver, an unknown encoder and no
\* writer, and reported the driver
C16_Witness ==
    /\ optTest.validated
    /\ optTest.vArg.driver = Nil /\ optTest.vArg.encoder = "xml" /\ optTest.vArg.w = <<>>
    /\ optTest.vErr = "driver cannot be nil"

(***************************************************************************)
(* C17 - C19: the rotating-file writer (SpecLumber).                       *)
(***************************************************************************)
\* config c breaks a rule of the rotating-file configuration
C17_Invalid(c) ==
    c.FilePath = "" \/ c.MaxRotatedSize < 0 \/ c.MaxRetainDay < 0 \/ c.MaxRetainFiles < 0

\* the first field of c, in the order of the rules, that breaks its rule
C17_FirstFailing(c) ==
    CASE c.FilePath = "" -> "FilePath"
      [] c.FilePath # "" /\ c.MaxRotatedSize < 0 -> "MaxRotatedSize"
      [] c.FilePath # "" /\ c.MaxRotatedSize >= 0 /\ c.MaxRetainDay < 0 -> "MaxRetainDay"
      [] OTHER -> "MaxRetainFiles"

\* C17: NewLumberJackWriter returns a nil writer and an error wrapped as "invalid
\* lumberjack config" iff FilePath is empty or a numeric field is negative, the
\* error naming the first failing field; otherwise a writer and a nil error.
\* MustNewLumberJackWriter panics exactly for those configs.
C17_LumberJackErrors ==
    ljTest.pc = "done" =>
        LET c == ljTest.atCall
            rule == IF C17_FirstFailing(c) = "FilePath" THEN " cannot be empty"
                    ELSE " cannot be negative"
        IN  /\ ljTest.op = "NewLumberJackWriter" =>
                   /\ ~ljTest.panic
                   /\ (ljTest.writer = NilPtr /\ ljTest.err # "") <=> C17_Invalid(c)
                   /\ C17_Invalid(c) =>
                          ljTest.err = "invalid lumberjack config: " \o C17_FirstFailing(c) \o rule
                   /\ ~C17_Invalid(c) => (ljTest.writer # NilPtr /\ ljTest.err = "")
            /\ ljTest.op = "MustNewLumberJackWriter" =>
                   /\ ljTest.panic <=> C17_Invalid(c)
                   /\ ~ljTest.panic => ljTest.writer # NilPtr

\* NewLumberJackWriter has refused a config whose only fault is a negative
\* MaxRetainFiles
C17_Witness ==
    /\ ljTest.pc = "done" /\ ljTest.op = "NewLumberJackWriter"
    /\ ljTest.atCall.FilePath = "app.log"
    /\ ljTest.atCall.MaxRotatedSize = 0 /\ ljTest.atCall.MaxRetainDay = 5
    /\ ljTest.atCall.MaxRetainFiles = -1
    /\ ljTest.writer = NilPtr
    /\ ljTest.err = "invalid lumberjack config: MaxRetainFiles cannot be negative"

\* C18, as claimed: a writer built from a config with MaxRetainDay = 0 has
\* age-based retention disabled (MaxAge = 0), and one built with MaxRetainFiles = 0
\* has count-based retention disabled (MaxBackups = 0).
C18_RetentionDisabledByZero ==
    (ljTest.pc = "done" /\ ljTest.writer # NilPtr) =>
        /\ ljTest.atCall.MaxRetainDay = 0 => ljTest.writer.MaxAge = 0
        /\ ljTest.atCall.MaxRetainFiles = 0 => ljTest.writer.MaxBackups = 0

C20_ConcurrentEmission ==
    (/\ Len(heap) = 2 /\ C12_Case(2)
     /\ Configured(hist.origin[2].arg).w = <<Buf1>>
     /\ \A p \in DOMAIN gs : gs[p].pc = "idle" /\ (gs[p].op = "Log" => gs[p].m.sev = InfoLevel)
     /\ \E p \in DOMAIN gs : gs[p].op = "Log")
    => /\ \A p \in DOMAIN gs : gs[p].op = "Log" => Len(Recs(Buf1, gs[p].id)) = 1
       /\ \A i \in DOMAIN out[Buf1] : out[Buf1][i].kind = "record"
       /\ \A i, j \in DOMAIN out[Buf1] : out[Buf1][i].call = out[Buf1][j].call => i = j

(***************************************************************************)
(* C21: availability of the package-level functions (SpecConc).            *)
(***************************************************************************)
\* C21, as claimed: whatever UpdateDefaultLogger calls (nil or not) and Close
\* calls were made, a package-level logging function that has completed has
\* returned without panicking.
C21_GlobalAvailability ==
    \A p \in DOMAIN gs : (Done(p) /\ gs[p].op = "Package") => gs[p].res = "ok"

(***************************************************************************)
(* C22: ParseLevel and Level.Enabled (SpecParse).                          *)
(***************************************************************************)
\* the level a word names: the level whose String() is the word, NoneLevel when
\* there is none
C22_Named(word) ==
    IF \E l \in Levels : LevelString(l) = word
    THEN CHOOSE l \in Levels : LevelString(l) = word
    ELSE NoneLevel

\* C22: ParseLevel is total. For a text that is a word in any letter case between
\* two runs of white space, ParseLevel returns the level the lower-case word names
\* when the word is none, debug, info, warn or error, and NoneLevel for every other
\* word, the empty one included; Level.Enabled() is false for NoneLevel and true
\* for every other value.
C22_ParseLevel ==
    /\ parseTest.pc = "parsed" =>
           /\ parseTest.lvl \in Levels
           /\ parseTest.lvl = C22_Named(parseTest.core)
    /\ \A i \in DOMAIN parseTest.enabledOf :
           parseTest.enabledOf[i].enabled <=> parseTest.enabledOf[i].l # NoneLevel

\* the text of a space, a newline, wArN, a carriage return and two spaces was
\* parsed as WarnLevel, and Level(99).Enabled() returned true
C22_Witness ==
    /\ parseTest.pc = "parsed"
    /\ parseTest.text = <<" ", "\n", "w", "A", "r", "N", "\r", " ", " ">>
    /\ parseTest.lvl = WarnLevel
    /\ parseTest.enabledOf = <<[l |-> 99, enabled |-> TRUE]>>

(***************************************************************************)
(* C23: per-call snapshot of the default slot (SpecConc).                  *)
(***************************************************************************)
\* a package-level call past its read of the slot has written only to the
\* destinations of the logger it read, at most one record to each, and, once it has
\* returned normally from a backend logger whose gate it passes, one to each
C23_OneLogger ==
    \A p \in DOMAIN gs :
        (gs[p].op = "Package" /\ gs[p].pc # "dl_read") =>
            /\ \A d \in Dests :
                   /\ Len(Recs(d, gs[p].id)) <= 1
                   /\ Wrote(d, gs[p].id) => gs[p].lg # 0 /\ d \in BuiltSyncers(gs[p].lg)
            /\ (/\ Done(p) /\ gs[p].res = "ok" /\ heap[gs[p].lg].type = "zapLogger"
                /\ MethodLevel(gs[p].m.sev) >= gs[p].h.lvl)
               => \A d \in BuiltSyncers(gs[p].lg) : Wrote(d, gs[p].id)

\* the read takes the value the slot has at that instant, and the call neither
\* reads again nor changes the logger it delegates to
C23_ReadOnce ==
    \A p \in DOMAIN gs :
        /\ (gs[p].op = "Package" /\ gs[p].pc = "dl_read" /\ gs'[p].pc # "dl_read")
           => gs'[p].lg = defaultLogger
        /\ (gs[p].op = "Package" /\ gs[p].pc \in {"dispatch", "z_check", "emit"})
           => /\ gs'[p].pc # "dl_read"
              /\ gs'[p].lg = gs[p].lg
              /\ gs'[p].id = gs[p].id

\* C23: per-call snapshot. A package-level call reads the default slot once, the
\* value read being the slot's value at an instant between the call's start and
\* its return, and makes one delegated call on that logger: its record is on that
\* logger's destinations and on no other, whatever UpdateDefaultLogger calls run
\* meanwhile.
C23_PerCallSnapshot == []C23_OneLogger /\ [][C23_ReadOnce]_vars

\* a package-level call read the init-time logger and wrote to standard output;
\* an UpdateDefaultLogger call begun after it has put another logger in the slot
C23_Witness ==
    \E p, q \in DOMAIN gs :
        /\ Done(p) /\ gs[p].op = "Package" /\ gs[p].lg = 1 /\ Wrote(Stdout, gs[p].id)
        /\ Done(q) /\ gs[q].op = "UpdateDefaultLogger" /\ gs[q].lg = 2 /\ gs[q].id > gs[p].id
        /\ defaultLogger = 2
        /\ \A d \in Dests \ {Stdout} : ~Wrote(d, gs[p].id)

(***************************************************************************)
(* C24: option application order (SpecBuild).                              *)
(***************************************************************************)
C24_Fields == {"lvl", "w", "encoder", "caller", "driver"}

\* the field a With* option is about
C24_FieldOf(f) ==
    CASE f.kind = "WithLevel" -> "lvl"
      [] f.kind = "WithWriter" -> "w"
      [] f.kind = "WithCaller" -> "caller"
      [] f.kind = "WithEncoder" -> "encoder"
      [] f.kind = "WithDriver" -> "driver"

\* what the last option about a field in the list gives it; the default when the
\* list has none
C24_LastOn(funcOpts, field) ==
    LET about == {i \in DOMAIN funcOpts :
                     funcOpts[i] # NilOption /\ C24_FieldOf(funcOpts[i]) = field}
    IN  IF about = {} THEN defaultOptions[field]
        ELSE funcOpts[CHOOSE i \in about : \A j \in about : j <= i].v

\* the loop starts from the defaults; after it every field has the value of the
\* last option about it, so two options on different fields give the same in either
\* order; with no option the configuration is Debug, JSON, caller off, Zap driver
C24_Result ==
    /\ (buildTest.pc = "loop" /\ buildTest.i = 1) => buildTest.st.opts = defaultOptions
    /\ buildTest.pc # "panic"
    /\ buildTest.pc = "applied" =>
           /\ \A field \in C24_Fields :
                  buildTest.st.opts[field] = C24_LastOn(buildTest.funcOpts, field)
           /\ (/\ Len(buildTest.funcOpts) = 2
               /\ \A i \in 1..2 : buildTest.funcOpts[i] # NilOption
               /\ C24_FieldOf(buildTest.funcOpts[1]) # C24_FieldOf(buildTest.funcOpts[2]))
              => buildTest.st.opts =
                     Configured(<<buildTest.funcOpts[2], buildTest.funcOpts[1]>>)
           /\ buildTest.funcOpts = <<>> =>
                  /\ buildTest.st.opts.lvl = DebugLevel
                  /\ buildTest.st.opts.encoder = EncoderJSON
                  /\ buildTest.st.opts.caller = FALSE
                  /\ buildTest.st.opts.driver = NewZapDriverName

\* an iteration of the loop takes the options in list order; a With* option sets
\* its own field and leaves the other four as they were, a nil option leaves all five
C24_Iteration ==
    (buildTest.pc = "loop" /\ buildTest'.i = buildTest.i + 1) =>
        LET f == buildTest.funcOpts[buildTest.i]
        IN  IF f = NilOption THEN buildTest'.st.opts = buildTest.st.opts
            ELSE /\ buildTest'.st.opts[C24_FieldOf(f)] = f.v
                 /\ \A field \in C24_Fields \ {C24_FieldOf(f)} :
                        buildTest'.st.opts[field] = buildTest.st.opts[field]

\* C24: option application order. NewLogger applies the options left to right to a
\* fresh defaultOptions() value; each With* option changes only its own field;
\* options on different fields commute and of two options on one field the later
\* wins; with no options the configuration is level Debug, encoder JSON, caller
\* off, Zap driver.
C24_OptionOrder == []C24_Result /\ [][C24_Iteration]_vars

\* WithLevel(Info), WithCaller(true), WithLevel(Error) were applied: the level is
\* Error, caller capture is on and the encoder is the default one
C24_Witness ==
    /\ buildTest.pc = "applied"
    /\ buildTest.funcOpts = <<WithLevel(InfoLevel), WithCaller(TRUE), WithLevel(ErrorLevel)>>
    /\ buildTest.st.opts.lvl = ErrorLevel
    /\ buildTest.st.opts.caller
    /\ buildTest.st.opts.encoder = EncoderJSON

(***************************************************************************)
(* C25, C27: the fallback path of NewLogger (Spec).                        *)
(***************************************************************************)
\* a step in which NewLogger returns logger number Len(heap'), built from options
\* that fail validation
C25_FallbackStep ==
    /\ Len(heap') = Len(heap) + 1
    /\ hist'.origin[Len(heap')].by = "NewLogger"
    /\ Validate(Configured(hist'.origin[Len(heap')].arg)) # ""

\* the construction leaves every destination, standard error included, as it was
C25_Silent == C25_FallbackStep => out' = out

\* C25, as claimed: when NewLogger's validation fails, NewLogger() with no options
\* included, the construction writes no diagnostic line to standard error or to any
\* other destination.
C25_SilentFallback == [][C25_Silent]_vars

\* C27, as claimed: the Options value NewLogger passes to the driver satisfies
\* Validate(), on the normal path and on the fallback path alike.
C27_DriverOptionsValid ==
    \A l \in DOMAIN heap : MadeByNewLogger(l) => Validate(Effective(l)) = ""

(***************************************************************************)
(* C26: caller capture (SpecCaller).                                       *)
(***************************************************************************)
\* C26, as claimed: with caller capture enabled, the call site in the record of a
\* completed call is the application function that made the call, both for a
\* method called on a Logger and for a package-level function.
C26_CallerCapture ==
    \A p \in DOMAIN gs :
        (Done(p) /\ gs[p].op \in {"Log", "Package"} /\ gs[p].h # NilPtr /\ gs[p].h.caller) =>
            \A d \in Dests : \A i \in DOMAIN Recs(d, gs[p].id) :
                Recs(d, gs[p].id)[i].caller = AppFrame

(***************************************************************************)
(* C28: Close and the calls in flight (SpecConc).                          *)
(***************************************************************************)
\* a step leaves the records of the calls on loggers whose Close has returned as
\* they are on every destination
C28_NothingAfterClose ==
    \A p \in DOMAIN gs :
        (gs[p].op \in {"Log", "Package"} /\ gs[p].lg \in hist.closeReturned) =>
            \A d \in Dests : Len(Recs(d, gs[p].id)') = Len(Recs(d, gs[p].id))

\* C28, as claimed: once Close on a zapLogger has returned, no record of that
\* logger is written to any destination, under every interleaving of Close with
\* logging calls of other goroutines, those that obtained the backend handle before
\* Close took the lock included.
C28_CloseVersusInFlight == [][C28_NothingAfterClose]_vars

(***************************************************************************)
(* C29: the lifecycle of a zapLogger (SpecConc).                           *)
(***************************************************************************)
\* a closed logger has no handle; Sync was invoked at most once on each logger; a
\* logger on which a Close has returned is closed, whatever Sync returned
C29_Closed ==
    /\ \A l \in DOMAIN heap :
           heap[l].type = "zapLogger" =>
               /\ heap[l].closed => heap[l].zap = NilPtr
               /\ SyncCount(l) <= 1
               /\ l \in hist.closeReturned => heap[l].closed
    /\ \A p \in DOMAIN gs :
           (Done(p) /\ gs[p].op = "Close" /\ gs[p].err # "") => heap[gs[p].lg].closed

\* closed stays true and a nil handle stays nil
C29_Monotonic ==
    \A l \in DOMAIN heap :
        heap[l].type = "zapLogger" =>
            /\ heap[l].closed => heap'[l].closed
            /\ heap[l].zap = NilPtr => heap'[l].zap = NilPtr

\* C29: zapLogger lifecycle. In every reachable state closed implies a nil handle;
\* closed never goes back to false and the handle never back to non-nil; Sync is
\* invoked at most once over any number of sequential or concurrent Close calls;
\* and the logger is marked closed even when that Sync returns an error.
C29_Lifecycle == []C29_Closed /\ [][C29_Monotonic]_vars

\* three Close calls were made on the init-time logger, the first returning the
\* error of Sync and the third returned too; Sync was invoked once and the logger
\* is closed
C29_Witness ==
    /\ \E p \in DOMAIN gs :
           Done(p) /\ gs[p].op = "Close" /\ gs[p].lg = 1 /\ gs[p].id = 1 /\ gs[p].err # ""
    /\ \E p \in DOMAIN gs : Done(p) /\ gs[p].op = "Close" /\ gs[p].lg = 1 /\ gs[p].id = 3
    /\ hist.closeReturned = {1}
    /\ SyncCount(1) = 1
    /\ heap[1].closed /\ heap[1].zap = NilPtr

(***************************************************************************)
(* C30: no lock is held during emission (SpecConc).                        *)
(***************************************************************************)
\* the goroutines at position pc, in a call on logger l when l is not 0
C30_At(pc, l) == {p \in DOMAIN gs : gs[p].pc = pc /\ (l # 0 => gs[p].lg = l)}

\* each lock is held by the goroutines inside DefaultLogger, UpdateDefaultLogger,
\* z() and Close and by no other: a goroutine writing a record holds none
C30_Holders ==
    /\ defaultLoggerMutex = [readers |-> Cardinality(C30_At("dl_read", 0)),
                             writer |-> C30_At("ud_store", 0) # {}]
    /\ \A l \in DOMAIN heap :
           heap[l].type = "zapLogger" =>
               heap[l].mutex = [readers |-> Cardinality(C30_At("z_check", l)),
                                writer |-> C30_At("close_body", l) # {}]

\* with a goroutine stalled in a write and the others between calls, every lock
\* is free
C30_Stalled ==
    \A p \in DOMAIN gs :
        (gs[p].pc = "emit" /\ \A q \in DOMAIN gs \ {p} : Idle(q)) =>
            /\ CanLock(defaultLoggerMutex)
            /\ \A l \in DOMAIN heap : heap[l].type = "zapLogger" => CanLock(heap[l].mutex)

\* a goroutine inside a call, not in a write, takes its next step or waits for a
\* lock whose holder takes its next step
C30_Progress ==
    (\E p \in DOMAIN gs : gs[p].pc \notin {"idle", "emit"}) =>
        ENABLED (\/ ConcDefaultLoggerReturn
                 \/ ConcMethodEnter
                 \/ ConcZReturn
                 \/ ConcCloseReturn
                 \/ ConcUpdateStore)

\* C30: no lock is held during emission. Neither the default-slot lock nor a
\* zapLogger's mutex is held while a record is written, so a call stalled in a
\* write does not keep DefaultLogger, UpdateDefaultLogger or Close from completing,
\* and no interleaving of these operations deadlocks.
C30_NoLockDuringEmission == C30_Holders /\ C30_Stalled /\ C30_Progress

\* the first call, a package-level one, is in its write on the init-time logger;
\* meanwhile the other goroutine has replaced the default logger and then closed
\* the init-time logger
C30_Witness ==
    \E p, q \in DOMAIN gs :
        /\ gs[p].pc = "emit" /\ gs[p].op = "Package" /\ gs[p].id = 1 /\ gs[p].lg = 1
        /\ Done(q) /\ gs[q].op = "Close" /\ gs[q].lg = 1 /\ gs[q].id = 3
        /\ defaultLogger = 2

====
